---------------------------- MODULE Spec2Model ----------------------------
(***************************************************************************)
(* A model of ResClient (src/src/class/ResClient.js): the resource cache,  *)
(* its reference counts, the subscription life cycle, the request table,   *)
(* the connection handling and the collection diff.                        *)
(*                                                                         *)
(* One action is one turn of the JavaScript event loop: a call of the      *)
(* application, a WebSocket event or a timer, together with the promise    *)
(* reactions (microtasks) it triggers.                                     *)
(***************************************************************************)
EXTENDS Integers, Sequences, FiniteSets, TLC

VARIABLES
    cache,            \* this.cache: rid -> CacheItem (or absent)
    cacheOrder,       \* the keys of this.cache in insertion order (the order of for-in)
    stale,            \* this.stale: the set of stale rids (null = {})
    connected,        \* this.connected
    tryConnect,       \* this.tryConnect
    ws,               \* this.ws: 0 (null) or a socket number
    connectPromise,   \* this.connectPromise: 0 (null) or the socket it was made with
    connectCallback,  \* this.connectCallback: 0 (null) or the socket it was made with
    reqId,            \* this.reqId
    requests,         \* this.requests with the promise and closure of each request
    queued,           \* sends chained on a pending connect promise (_send, not connected)
    sockets,          \* the WebSocket objects created so far, each with its state
    srvSub,           \* per socket: the rids the server holds a direct subscription for
    timers,           \* the pending setTimeout calls, oldest first: the rid of a
                      \* _subscribeToStale(rid), or ReconnectTok for _reconnect
    dA, dB, dOps, dRes, dpc   \* the collection diff on its own (SpecDiff)

vars == << cache, cacheOrder, stale, connected, tryConnect, ws, connectPromise, connectCallback,
           reqId, requests, queued, sockets, srvSub, timers,
           dA, dB, dOps, dRes, dpc >>

-----------------------------------------------------------------------------
(* Bounds of the model *)

\* Requests framed or queued in one run.
MaxReq == 3
\* WebSocket objects created in one run.
MaxSock == 2
\* Calls of call() in one run.
MaxCalls == 1
\* Listeners the application holds on one resource.
MaxDirect == 1
\* Length of a collection in a server snapshot.
MaxLen == 1
\* Timers pending at once for one rid.
MaxTimers == 1
\* Length of the sequences, and number of values, of the diff on its own.
DiffMaxLen == 3
DiffVals == 3

(* Program constants *)
stateNone == 0
stateDelete == 1
stateKeep == 2
stateStale == 3

typeModel == "model"
typeCollection == "collection"

\* The resources of the model and their kinds (a conforming server never
\* changes the kind of a rid).
RIDS == {"a", "b"}
KindOf(r) == IF r = "a" THEN typeModel ELSE typeCollection
\* The fields of a model, in the order a for-in loop visits them.
Keys == << "k1", "k2" >>
KeySet == {Keys[i] : i \in 1..Len(Keys)}
\* The primitive values.
PRIMS == {"x"}

-----------------------------------------------------------------------------
(* Values.  A value is a primitive, a reference on the wire ({rid}), an    *)
(* item object held in a resource ("ref": the object now cached under the  *)
(* rid; "dead": the object of an entry that was since evicted), or absent  *)
(* (undefined / the delete action).                                        *)

Val(t, v) == [t |-> t, v |-> v]
Absent == Val("absent", "")
Prim(p) == Val("prim", p)
Ref(r) == Val("ref", r)
Dead(r) == Val("dead", r)

\* The values a server holds in resource r: a resource does not refer to itself
WireVals(r) == {Prim(p) : p \in PRIMS} \cup {Ref(t) : t \in RIDS \ {r}}

EmptyModel == [k \in KeySet |-> Absent]

\* new CacheItem(rid, unsubscribe)
NoEntry == [present |-> FALSE, hasItem |-> FALSE, type |-> "none", m |-> EmptyModel,
            c |-> << >>, direct |-> 0, indirect |-> 0, subscribed |-> FALSE,
            promise |-> FALSE]
NewCacheItem == [NoEntry EXCEPT !.present = TRUE]

isResource(v) == v.t \in {"ref", "dead"}

\* The values a for-of (collection) or for-in (model) loop over ci.item visits.
itemValues(e) ==
    IF e.type = typeCollection THEN e.c
    ELSE IF e.type = typeModel
    THEN LET RECURSIVE own(_)
             own(i) == IF i > Len(Keys) THEN << >>
                       ELSE (IF e.m[Keys[i]] = Absent THEN << >> ELSE << e.m[Keys[i]] >>)
                            \o own(i + 1)
         IN own(1)
    ELSE << >>

\* _getRefItem over the values of ci.item: the rids of those found in the cache.
RECURSIVE refRids(_, _)
refRids(c, vs) ==
    IF vs = << >> THEN << >>
    ELSE (IF isResource(Head(vs)) /\ c[Head(vs).v].present THEN << Head(vs).v >> ELSE << >>)
         \o refRids(c, Tail(vs))

getRefItems(c, e) == refRids(c, itemValues(e))

-----------------------------------------------------------------------------
(* The reference state engine: _getRefState, _seekRefs, _markDelete,       *)
(* _traverse.  refs is the object built by _getRefState: order is the      *)
(* insertion order of its keys, rc and st the fields of each RefState.     *)
(* The root is given as (rid0, e0): e0 is the CacheItem object passed to   *)
(* _getRefState, which is the cached entry or an object evicted earlier    *)
(* that a closure still holds.                                             *)

NoRefs == [order |-> << >>, rc |-> [r \in RIDS |-> 0], st |-> [r \in RIDS |-> stateNone]]
InRefs(refs, r) == \E i \in 1..Len(refs.order) : refs.order[i] = r
PutRef(refs, r, n) == [refs EXCEPT !.order = Append(@, r), !.rc[r] = n, !.st[r] = stateNone]

DeleteTok == "#delete"

RECURSIVE seekVisit(_, _, _), seekKids(_, _, _)
\* _traverse calling _seekRefs on one referred item
seekVisit(c, refs, r) ==
    IF c[r].subscribed THEN refs
    ELSE IF ~InRefs(refs, r)
    THEN seekKids(c, PutRef(refs, r, c[r].indirect - 1), getRefItems(c, c[r]))
    ELSE [refs EXCEPT !.rc[r] = @ - 1]
seekKids(c, refs, kids) ==
    IF kids = << >> THEN refs
    ELSE seekKids(c, seekVisit(c, refs, Head(kids)), Tail(kids))

\* The first traversal of _getRefState (skipFirst = true)
seekRefs(c, rid0, e0) ==
    seekKids(c, PutRef(NoRefs, rid0, e0.indirect), getRefItems(c, e0))

RECURSIVE markVisit(_, _, _, _, _, _, _), markKids(_, _, _, _, _, _)
\* _traverse calling _markDelete on one item: ve is the object visited
\* (the root object on the first call, the cached entry afterwards)
markVisit(c, rid0, e0, refs, r, ve, state) ==
    LET rci == IF r = rid0 THEN e0 ELSE c[r]
        kids == getRefItems(c, ve)
    IN  IF ve.subscribed THEN refs
        ELSE IF refs.st[r] = stateKeep THEN refs
        ELSE IF state = DeleteTok
        THEN IF refs.rc[r] > 0
             THEN markKids(c, rid0, e0, [refs EXCEPT !.st[r] = stateKeep], kids, r)
             ELSE IF refs.st[r] # stateNone THEN refs
             ELSE IF rci.direct > 0
             THEN markKids(c, rid0, e0, [refs EXCEPT !.st[r] = stateStale], kids, r)
             ELSE markKids(c, rid0, e0, [refs EXCEPT !.st[r] = stateDelete], kids, DeleteTok)
        ELSE IF r = state THEN refs
        ELSE markKids(c, rid0, e0, [refs EXCEPT !.st[r] = stateKeep], kids,
                      IF refs.rc[r] > 0 THEN r ELSE state)
markKids(c, rid0, e0, refs, kids, state) ==
    IF kids = << >> THEN refs
    ELSE markKids(c, rid0, e0,
                  markVisit(c, rid0, e0, refs, Head(kids), c[Head(kids)], state),
                  Tail(kids), state)

\* The second traversal of _getRefState stopping at the root
markDeleteShallow(c, rid0, e0, refs) ==
    [refs EXCEPT !.st[rid0] = IF refs.rc[rid0] > 0 THEN stateKeep
                              ELSE IF e0.direct > 0 THEN stateStale ELSE stateDelete]

\* The second traversal of _getRefState
markDelete(c, rid0, e0, refs) == markVisit(c, rid0, e0, refs, rid0, e0, DeleteTok)

getRefState(c, rid0, e0) ==
    IF e0.subscribed THEN NoRefs
    ELSE markDelete(c, rid0, e0, seekRefs(c, rid0, e0))

-----------------------------------------------------------------------------
(* The collection diff: _patchDiff.  The result is the sequence of the     *)
(* onRemove and onAdd calls in the order the code makes them: a remove     *)
(* carries idx, an add carries n (the place in b, from 0) and idx.         *)

Max(x, y) == IF x >= y THEN x ELSE y

RemoveOp(idx) == [op |-> "remove", n |-> 0, idx |-> idx]
AddOp(n, idx) == [op |-> "add", n |-> n, idx |-> idx]

\* a.slice(from, to), places counted from 0
Slice(a, from, to) == [i \in 1..(to - from) |-> a[from + i]]

RECURSIVE trimStart(_, _, _), trimEnd(_, _, _, _, _)
trimStart(a, b, s) ==
    IF s < Len(a) /\ s < Len(b) /\ a[s + 1] = b[s + 1] THEN trimStart(a, b, s + 1) ELSE s
\* returns how many elements the second while loop trims
trimEnd(a, b, s, m, n) ==
    IF s < m /\ s < n /\ a[m] = b[n] THEN trimEnd(a, b, s, m - 1, n - 1) ELSE Len(a) - m

lcsMatrix(aa, bb) ==
    LET c[i \in 0..Len(aa), j \in 0..Len(bb)] ==
            IF i = 0 \/ j = 0 THEN 0
            ELSE IF aa[i] = bb[j] THEN c[i - 1, j - 1] + 1
            ELSE Max(c[i, j - 1], c[i - 1, j])
    IN c

RECURSIVE backtrack(_, _, _, _, _, _, _, _, _, _)
\* The while (true) loop: returns the removes made and the adds list
backtrack(aa, bb, c, s, i, j, idx, r, adds, rems) ==
    IF i > 0 /\ j > 0 /\ aa[i] = bb[j]
    THEN backtrack(aa, bb, c, s, i - 1, j - 1, idx - 1, r, adds, rems)
    ELSE IF j > 0 /\ (i = 0 \/ c[i, j - 1] >= c[i - 1, j])
    THEN backtrack(aa, bb, c, s, i, j - 1, idx, r, Append(adds, << j - 1, idx, r >>), rems)
    ELSE IF i > 0 /\ (j = 0 \/ c[i, j - 1] < c[i - 1, j])
    THEN backtrack(aa, bb, c, s, i - 1, j, idx - 1, r + 1, adds, Append(rems, RemoveOp(idx - 1)))
    ELSE [r |-> r, adds |-> adds, rems |-> rems]

RECURSIVE doAddsUnshifted(_, _, _, _, _)
\* The final loop with the index of each add not moved past the adds made before it
doAddsUnshifted(adds, s, r, len, i) ==
    IF i < 0 THEN << >>
    ELSE << AddOp(adds[i + 1][1] + s, adds[i + 1][2] - r + adds[i + 1][3]) >>
         \o doAddsUnshifted(adds, s, r, len, i - 1)

RECURSIVE doAdds(_, _, _, _, _)
\* The final loop: for (i = len; i >= 0; i--) onAdd(bb[n], n + s, idx - r + j + len - i)
doAdds(adds, s, r, len, i) ==
    IF i < 0 THEN << >>
    ELSE << AddOp(adds[i + 1][1] + s, adds[i + 1][2] - r + adds[i + 1][3] + len - i) >>
         \o doAdds(adds, s, r, len, i - 1)

\* _patchDiff(a, b, onKeep, onAdd, onRemove) with the loop of the adds run before the
\* removes are reported
patchDiffAddsFirst(a, b) ==
    LET s == trimStart(a, b, 0)
    IN  IF s = Len(a) /\ s = Len(b) THEN << >>
        ELSE LET t == trimEnd(a, b, s, Len(a), Len(b))
                 aa == Slice(a, s, Len(a) - t)
                 bb == Slice(b, s, Len(b) - t)
                 c == lcsMatrix(aa, bb)
                 bt == backtrack(aa, bb, c, s, Len(aa), Len(bb), Len(aa) + s, 0, << >>, << >>)
             IN  doAdds(bt.adds, s, bt.r, Len(bt.adds) - 1, Len(bt.adds) - 1) \o bt.rems

\* _patchDiff(a, b, onKeep, onAdd, onRemove): the calls of onRemove and onAdd, in order
patchDiff(a, b) ==
    LET s == trimStart(a, b, 0)
    IN  IF s = Len(a) /\ s = Len(b) THEN << >>
        ELSE LET t == trimEnd(a, b, s, Len(a), Len(b))
                 aa == Slice(a, s, Len(a) - t)
                 bb == Slice(b, s, Len(b) - t)
                 c == lcsMatrix(aa, bb)
                 bt == backtrack(aa, bb, c, s, Len(aa), Len(bb), Len(aa) + s, 0, << >>, << >>)
             IN  bt.rems \o doAdds(bt.adds, s, bt.r, Len(bt.adds) - 1, Len(bt.adds) - 1)

\* Array.splice as the collection's __remove and __add do it (idx from 0)
RemoveAt(q, idx) == [i \in 1..(Len(q) - 1) |-> IF i <= idx THEN q[i] ELSE q[i + 1]]
InsertAt(q, idx, v) ==
    [i \in 1..(Len(q) + 1) |-> IF i <= idx THEN q[i] ELSE IF i = idx + 1 THEN v ELSE q[i - 1]]

-----------------------------------------------------------------------------
(* The client as a record M of its fields, threaded through the handlers.  *)
(* M.dead[rid] is the object evicted under rid in this turn, which the     *)
(* running handler may still hold.                                         *)
(* M.err is a pending JavaScript exception (the rest of the synchronous    *)
(* code is skipped), M.ovf says a bound of the model was exceeded (the     *)
(* turn is then not taken), M.micro is the queue of promise reactions.     *)

\* The empty bundle
NoBundle == [r \in RIDS |-> [in |-> FALSE, m |-> EmptyModel, c |-> << >>]]

NoHandle == [live |-> TRUE, snap |-> NoEntry]

\* What a turn does to the outside: the frames sent, the resource events and the
\* client events emitted, the promises settled, the entries evicted, the value returned
EmptyOut ==
    [sent |-> << >>, events |-> << >>, cev |-> << >>, settled |-> << >>,
     evicted |-> << >>, ret |-> ""]

Cur ==
    [cache |-> cache, order |-> cacheOrder, stale |-> stale, connected |-> connected, tryConnect |-> tryConnect,
     ws |-> ws, connectPromise |-> connectPromise, connectCallback |-> connectCallback,
     reqId |-> reqId, requests |-> requests, queued |-> queued, sockets |-> sockets,
     srvSub |-> srvSub, timers |-> timers,
     out |-> EmptyOut, err |-> FALSE, ovf |-> FALSE, micro |-> << >>,
     dead |-> [r \in RIDS |-> NoEntry]]

Throw(M) == [M EXCEPT !.err = TRUE]
Caught(M) == [M EXCEPT !.err = FALSE]

\* this.eventBus.emit(cacheItem.item, namespace.resource.rid.event, ...)
emitResource(M, rid, ev, keys, idx) ==
    [M EXCEPT !.out.events = Append(@, [rid |-> rid, ev |-> ev, keys |-> keys, idx |-> idx])]
\* this._emit(event, ...)
emit(M, ev) == [M EXCEPT !.out.cev = Append(@, ev)]
\* A promise is settled: code is the code of the error it is rejected with, where
\* the client makes the error
SettleCode(M, p, id, rid, how, code) ==
    [M EXCEPT !.out.settled =
        Append(@, [p |-> p, id |-> id, rid |-> rid, how |-> how, code |-> code])]
Settle(M, p, id, rid, how) == SettleCode(M, p, id, rid, how, "")

(* CacheItem: its code is not among the source files; modelled from the spec's data model *)
setSubscribed(M, rid, b) == [M EXCEPT !.cache[rid].subscribed = b]
addIndirect(M, rid, n) == [M EXCEPT !.cache[rid].indirect = @ + n]
removeIndirect(M, rid, n) == [M EXCEPT !.cache[rid].indirect = @ - n]
setItem(M, rid, type) ==
    [M EXCEPT !.cache[rid].hasItem = TRUE, !.cache[rid].type = type,
              !.cache[rid].promise = FALSE]
setPromise(M, rid) ==
    IF M.cache[rid].present /\ ~M.cache[rid].hasItem
    THEN [M EXCEPT !.cache[rid].promise = TRUE] ELSE M

(* The timers *)
ReconnectTok == "#reconnect"
\* The number of pending timers of one kind
Pending(ts, x) == Cardinality({i \in 1..Len(ts) : ts[i] = x})
\* The timer fires and is no longer pending
Fired(ts, i) == [j \in 1..(Len(ts) - 1) |-> IF j < i THEN ts[j] ELSE ts[j + 1]]

(* The stale set *)
addStale(M, rid) == [M EXCEPT !.stale = @ \cup {rid}]
removeStale(M, rid) == [M EXCEPT !.stale = @ \ {rid}]
\* setTimeout(() => this._subscribeToStale(rid), subscribeStaleDelay)
scheduleStale(M, rid) ==
    IF Pending(M.timers, rid) >= MaxTimers THEN [M EXCEPT !.ovf = TRUE]
    ELSE [M EXCEPT !.timers = Append(@, rid)]
setStale(M, rid) ==
    LET M1 == addStale(M, rid)
    IN  IF M1.connected THEN scheduleStale(M1, rid) ELSE M1

\* this.cache[rid] = new CacheItem(rid, this._unsubscribe)
newEntry(M, rid) == [M EXCEPT !.cache[rid] = NewCacheItem, !.order = Append(@, rid)]

\* delete this.cache[rid]: the entry's object lives on where a closure or a
\* resource still holds it
Evict(M, rid) ==
    LET e == M.cache[rid]
        kill(q) == IF q.h.live /\ q.rid = rid /\ q.cont # "call"
                   THEN [q EXCEPT !.h = [live |-> FALSE, snap |-> e]] ELSE q
        deadv(v) == IF v = Ref(rid) THEN Dead(rid) ELSE v
        mark(x) == [x EXCEPT !.m = [k \in KeySet |-> deadv(x.m[k])],
                             !.c = [i \in 1..Len(x.c) |-> deadv(x.c[i])]]
    IN  IF ~e.present THEN M
        ELSE [M EXCEPT !.cache = [r \in RIDS |-> IF r = rid THEN NoEntry ELSE mark(M.cache[r])],
                       !.order = SelectSeq(@, LAMBDA r : r # rid),
                       !.requests = [i \in 1..Len(M.requests) |-> kill(M.requests[i])],
                       !.queued = [i \in 1..Len(M.queued) |-> kill(M.queued[i])],
                       !.micro = [i \in 1..Len(M.micro) |-> kill(M.micro[i])],
                       !.dead[rid] = e,
                       !.out.evicted = Append(@, [rid |-> rid, direct |-> e.direct,
                                                   indirect |-> e.indirect,
                                                   subscribed |-> e.subscribed])]

RECURSIVE removeIndirectAll(_, _)
removeIndirectAll(M, rids) ==
    IF rids = << >> THEN M
    ELSE removeIndirectAll(removeIndirect(M, Head(rids), 1), Tail(rids))

\* _deleteRef(ci) without its _removeStale
deleteRefKeepStale(M, rid, e) ==
    Evict(removeIndirectAll(M, getRefItems(M.cache, e)), rid)

\* _deleteRef(ci): e is the object ci
deleteRef(M, rid, e) ==
    removeStale(Evict(removeIndirectAll(M, getRefItems(M.cache, e)), rid), rid)

RECURSIVE applyRefs(_, _, _, _, _, _)
\* The loop of _tryDelete over refs
applyRefs(M, refs, i, rid0, e0, live) ==
    IF i > Len(refs.order) THEN M
    ELSE LET r == refs.order[i]
             M1 == IF refs.st[r] = stateStale THEN setStale(M, r)
                   ELSE IF refs.st[r] = stateDelete
                   THEN deleteRef(M, r, IF r = rid0 /\ ~live THEN e0 ELSE M.cache[r])
                   ELSE M
         IN  applyRefs(M1, refs, i + 1, rid0, e0, live)

\* _tryDelete(ci) for an object still cached under rid
tryDelete(M, rid) ==
    applyRefs(M, getRefState(M.cache, rid, M.cache[rid]), 1, rid, M.cache[rid], TRUE)
\* _tryDelete(ci) for the object e0 of a closure, evicted earlier
tryDeleteDead(M, rid, e0) ==
    applyRefs(M, getRefState(M.cache, rid, e0), 1, rid, e0, FALSE)

-----------------------------------------------------------------------------
(* Materialization of a bundle and the event handlers.  A bundle B gives,  *)
(* for each rid in it (B[r].in), the snapshot: the fields of a model (m)   *)
(* or the elements of a collection (c), references as on the wire.         *)

\* The order in which for-in loops visit rids
RidOrder == << "a", "b" >>
resourceTypes == << typeModel, typeCollection >>

Skip == Val("skip", "")
DeleteAction == Val("delete", "")
Null == Prim("null")

\* The object a handler holds as cacheItem: the entry, or the object evicted in this turn
Item(M, rid) == IF M.cache[rid].present THEN M.cache[rid] ELSE M.dead[rid]
SetM(M, rid, m) ==
    IF M.cache[rid].present THEN [M EXCEPT !.cache[rid].m = m] ELSE [M EXCEPT !.dead[rid].m = m]
SetC(M, rid, c) ==
    IF M.cache[rid].present THEN [M EXCEPT !.cache[rid].c = c] ELSE [M EXCEPT !.dead[rid].c = c]

\* ci.item of the entry cached under rid, as a value held by a resource
itemOf(M, rid) == IF M.cache[rid].hasItem THEN Ref(rid) ELSE Null

\* The rids of kind t in B, in loop order
RECURSIVE ridsOf(_, _, _)
ridsOf(B, t, i) ==
    IF i > Len(RidOrder) THEN << >>
    ELSE (IF B[RidOrder[i]].in /\ KindOf(RidOrder[i]) = t THEN << RidOrder[i] >> ELSE << >>)
         \o ridsOf(B, t, i + 1)
bundleRids(B) == ridsOf(B, typeModel, 1) \o ridsOf(B, typeCollection, 1)

RECURSIVE createItems(_, _)
createItems(M, rids) ==
    IF rids = << >> THEN M
    ELSE LET rid == Head(rids)
             M1 == IF ~M.cache[rid].present
                   THEN newEntry(M, rid)
                   ELSE removeStale(M, rid)
             M2 == IF M1.cache[rid].hasItem THEN M1 ELSE setItem(M1, rid, KindOf(rid))
         IN  createItems(M2, Tail(rids))

RECURSIVE prepareModel(_, _, _, _)
\* types.model.prepareData, then item.__init
prepareModel(M, rid, dta, i) ==
    IF M.err \/ i > Len(Keys) THEN M
    ELSE LET k == Keys[i]
             v == dta[k]
         IN  IF v.t = "ref"
             THEN IF ~M.cache[v.v].present THEN Throw(SetM(M, rid, EmptyModel))
                  ELSE prepareModel(SetM(addIndirect(M, v.v, 1), rid,
                                         [Item(M, rid).m EXCEPT ![k] = itemOf(M, v.v)]),
                                    rid, dta, i + 1)
             ELSE prepareModel(SetM(M, rid, [Item(M, rid).m EXCEPT ![k] = v]), rid, dta, i + 1)

RECURSIVE prepareCollection(_, _, _, _)
\* types.collection.prepareData, then item.__init
prepareCollection(M, rid, dta, i) ==
    IF M.err \/ i > Len(dta) THEN M
    ELSE LET v == dta[i]
         IN  IF v.t = "ref"
             THEN IF ~M.cache[v.v].present THEN Throw(SetC(M, rid, << >>))
                  ELSE prepareCollection(SetC(addIndirect(M, v.v, 1), rid,
                                              Append(Item(M, rid).c, itemOf(M, v.v))),
                                         rid, dta, i + 1)
             ELSE prepareCollection(SetC(M, rid, Append(Item(M, rid).c, v)), rid, dta, i + 1)

RECURSIVE initItems(_, _, _)
initItems(M, B, rids) ==
    IF M.err \/ rids = << >> THEN M
    ELSE LET rid == Head(rids)
             M1 == IF KindOf(rid) = typeModel THEN prepareModel(M, rid, B[rid].m, 1)
                   ELSE prepareCollection(M, rid, B[rid].c, 1)
         IN  initItems(M1, B, Tail(rids))

(* ResModel.__update: its code is not among the source files *)
\* The keys of nv whose value differs from the model's
changedKeys(m, nv) == {k \in KeySet : nv[k] # Skip /\ nv[k] # m[k]}
modelUpdate(m, nv) == [k \in KeySet |-> IF nv[k] = Skip THEN m[k] ELSE nv[k]]

\* rm of _handleChangeEvent: order is the insertion order of its keys
NoRm == [order |-> << >>, n |-> [r \in RIDS |-> 0]]
rmAdd(rm, r, d) ==
    [order |-> IF \E i \in 1..Len(rm.order) : rm.order[i] = r THEN rm.order
               ELSE Append(rm.order, r),
     n |-> [rm.n EXCEPT ![r] = @ + d]]

RECURSIVE changeLoopNoAdds(_, _, _, _, _, _)
\* The first loop of _handleChangeEvent without the count of the references added
changeLoopNoAdds(M, item, vals, i, rm, nv) ==
    IF i > Len(Keys) THEN [rm |-> rm, nv |-> nv, err |-> FALSE]
    ELSE LET k == Keys[i]
             v == vals[k]
             ov == item.m[k]
             rm2 == IF isResource(ov) THEN rmAdd(rm, ov.v, 1) ELSE rm
             nv1 == [nv EXCEPT ![k] = IF v.t = "delete" THEN Absent
                                      ELSE IF v.t = "ref" THEN itemOf(M, v.v) ELSE v]
         IN  IF v = Absent THEN changeLoopNoAdds(M, item, vals, i + 1, rm, nv)
             ELSE IF v.t = "ref" /\ ~M.cache[v.v].present
             THEN [rm |-> rm, nv |-> nv, err |-> TRUE]
             ELSE changeLoopNoAdds(M, item, vals, i + 1, rm2, nv1)

RECURSIVE changeLoop(_, _, _, _, _, _)
\* The first loop of _handleChangeEvent: returns rm, the values for __update, the exception
changeLoop(M, item, vals, i, rm, nv) ==
    IF i > Len(Keys) THEN [rm |-> rm, nv |-> nv, err |-> FALSE]
    ELSE LET k == Keys[i]
             v == vals[k]
             ov == item.m[k]
             rm1 == IF v.t = "ref" THEN rmAdd(rm, v.v, -1) ELSE rm
             rm2 == IF isResource(ov) THEN rmAdd(rm1, ov.v, 1) ELSE rm1
             nv1 == [nv EXCEPT ![k] = IF v.t = "delete" THEN Absent
                                      ELSE IF v.t = "ref" THEN itemOf(M, v.v) ELSE v]
         IN  IF v = Absent THEN changeLoop(M, item, vals, i + 1, rm, nv)
             ELSE IF v.t = "ref" /\ ~M.cache[v.v].present
             THEN [rm |-> rm, nv |-> nv, err |-> TRUE]
             ELSE changeLoop(M, item, vals, i + 1, rm2, nv1)

RECURSIVE rmLoop(_, _, _)
\* The second loop of _handleChangeEvent
rmLoop(M, rm, i) ==
    IF M.err \/ i > Len(rm.order) THEN M
    ELSE LET r == rm.order[i]
         IN  IF ~M.cache[r].present THEN Throw(M)
             ELSE LET M1 == removeIndirect(M, r, rm.n[r])
                  IN  rmLoop(IF rm.n[r] > 0 THEN tryDelete(M1, r) ELSE M1, rm, i + 1)

\* An item object held since before the second loop, as it is after it
afterLoop(M, v) == IF v.t = "ref" /\ ~M.cache[v.v].present THEN Dead(v.v) ELSE v

\* _handleChangeEvent(cacheItem, event, data) after its call of _cacheResources:
\* vals is data.values, absent keys Absent
changeEvent(M1, rid, vals) ==
    LET lp == changeLoop(M1, Item(M1, rid), vals, 1, NoRm,
                         [k \in KeySet |-> Skip])
        M2 == rmLoop(M1, lp.rm, 1)
        nv == [k \in KeySet |-> afterLoop(M2, lp.nv[k])]
        m == Item(M2, rid).m
        changed == changedKeys(m, nv)
        M3 == SetM(M2, rid, modelUpdate(m, nv))
    IN  IF lp.err THEN Throw(M1)
        ELSE IF M2.err THEN M2
        ELSE IF changed = {} THEN M3
        ELSE emitResource(M3, rid, "change", changed, 0)

\* _handleAddEvent(cacheItem, event, data) after its call of _cacheResources
addEvent(M1, rid, v, idx) ==
    IF v.t = "ref"
    THEN IF ~M1.cache[v.v].present THEN Throw(M1)
         ELSE emitResource(SetC(addIndirect(M1, v.v, 1), rid,
                                InsertAt(Item(M1, rid).c, idx, itemOf(M1, v.v))),
                           rid, "add", {}, idx)
    ELSE emitResource(SetC(M1, rid, InsertAt(Item(M1, rid).c, idx, v)), rid, "add", {}, idx)

\* _handleRemoveEvent(cacheItem, event, data)
handleRemoveEvent(M, rid, idx) ==
    LET item == Item(M, rid).c[idx + 1]
        M1 == emitResource(SetC(M, rid, RemoveAt(Item(M, rid).c, idx)), rid, "remove", {}, idx)
    IN  IF isResource(item)
        THEN IF ~M1.cache[item.v].present THEN Throw(M1)
             ELSE tryDelete(removeIndirect(M1, item.v, 1), item.v)
        ELSE M1

\* _handleUnsubscribeEvent(cacheItem, event)
handleUnsubscribeEvent(M, rid) ==
    emitResource(tryDelete(setSubscribed(M, rid, FALSE), rid), rid, "unsubscribe", {}, 0)

\* _syncModel(cacheItem, data): _handleChangeEvent with no resources to cache
syncModel(M, rid, data) == changeEvent(M, rid, data)

RECURSIVE syncOps(_, _, _, _, _)
\* The callbacks of _syncCollection, called in the order _patchDiff calls them:
\* _handleRemoveEvent, and _handleAddEvent with no resources to cache
syncOps(M, rid, data, ops, i) ==
    IF M.err \/ i > Len(ops) THEN M
    ELSE LET o == ops[i]
             M1 == IF o.op = "remove" THEN handleRemoveEvent(M, rid, o.idx)
                   ELSE addEvent(M, rid, data[o.n + 1], o.idx)
         IN  syncOps(M1, rid, data, ops, i + 1)

\* _syncCollection(cacheItem, data)
syncCollection(M, rid, data) ==
    LET a == Item(M, rid).c
        b == [i \in 1..Len(data) |-> IF data[i].t = "ref" THEN itemOf(M, data[i].v) ELSE data[i]]
    IN  IF \E i \in 1..Len(data) : data[i].t = "ref" /\ ~M.cache[data[i].v].present
        THEN Throw(M)
        ELSE syncOps(M, rid, data, patchDiff(a, b), 1)

RECURSIVE syncItems(_, _, _)
syncItems(M, B, rids) ==
    IF M.err \/ rids = << >> THEN M
    ELSE LET rid == Head(rids)
             M1 == IF ~M.cache[rid].present THEN Throw(M)
                   ELSE IF KindOf(rid) = typeModel THEN syncModel(M, rid, B[rid].m)
                   ELSE syncCollection(M, rid, B[rid].c)
         IN  syncItems(M1, B, Tail(rids))

\* _cacheResources(resources) with the items of each type created and initialized
\* before those of the next type are created
cacheResourcesTypeWise(M, B) ==
    LET ms == ridsOf(B, typeModel, 1)
        cs == ridsOf(B, typeCollection, 1)
        new(M0, rs) == SelectSeq(rs, LAMBDA r : ~M0.cache[r].hasItem)
        M1 == initItems(createItems(M, ms), B, new(M, ms))
        M2 == initItems(createItems(M1, cs), B, new(M1, cs))
    IN  syncItems(M2, B, SelectSeq(bundleRids(B), LAMBDA r : M.cache[r].hasItem))

\* _cacheResources(resources)
cacheResources(M, B) ==
    LET all == bundleRids(B)
        toSync == SelectSeq(all, LAMBDA r : M.cache[r].hasItem /\ M.cache[r].type = KindOf(r))
        toInit == SelectSeq(all, LAMBDA r : ~M.cache[r].hasItem)
    IN  syncItems(initItems(createItems(M, all), B, toInit), B, toSync)

\* _handleChangeEvent(cacheItem, event, data): B is the bundle in data
handleChangeEvent(M, rid, vals, B) ==
    LET M1 == cacheResources(M, B)
    IN  IF M1.err THEN M1 ELSE changeEvent(M1, rid, vals)

\* _handleAddEvent(cacheItem, event, data): B is the bundle in data
handleAddEvent(M, rid, v, idx, B) ==
    IF v.t = "ref"
    THEN LET M1 == cacheResources(M, B)
         IN  IF M1.err THEN M1 ELSE addEvent(M1, rid, v, idx)
    ELSE addEvent(M, rid, v, idx)

-----------------------------------------------------------------------------
(* Connection, requests and promises.                                      *)
(* A send q is [method, rid, cont, h]: cont names the reactions chained on *)
(* the promise _send returns ("get": _subscribe(ci, true) and get's then;  *)
(* "resub": _subscribe(ci); "unsub": the then and catch of _unsubscribe;   *)
(* "call": the promise goes to the application), h is the CacheItem object *)
(* ci those reactions hold.                                                *)

Send(method, rid, cont) == [method |-> method, rid |-> rid, cont |-> cont, h |-> NoHandle]

DoneReq == [method |-> "", rid |-> "", cont |-> "call", h |-> NoHandle, sock |-> 0,
            inTable |-> FALSE, state |-> "settled"]
\* What is left of a request once it is deleted from the table and its promise settled
Done(q) == [DoneReq EXCEPT !.method = IF q.method = "call" THEN "call" ELSE ""]

NewSocket == [st |-> "connecting", hook |-> "none", cp |-> "pending"]

Micro(k, q, id, cp) ==
    [k |-> k, method |-> q.method, rid |-> q.rid, cont |-> q.cont, h |-> q.h,
     id |-> id, cp |-> cp]

\* connect()
connect(M) ==
    LET M1 == [M EXCEPT !.tryConnect = TRUE]
        s == Len(M.sockets) + 1
    IN  IF M1.connectPromise # 0 THEN M1
        ELSE IF s > MaxSock THEN [M1 EXCEPT !.ovf = TRUE]
        ELSE [M1 EXCEPT !.sockets = Append(@, NewSocket), !.connectCallback = s,
                        !.ws = s, !.connectPromise = s]

\* this.ws.close()
wsClose(M) ==
    IF M.ws = 0 THEN M
    ELSE [M EXCEPT !.sockets[M.ws].st =
              IF @ = "open" THEN "closing" ELSE IF @ = "connecting" THEN "failing" ELSE @]

\* _connectResolve()
connectResolve(M) ==
    LET s == M.connectCallback
    IN  IF s = 0 THEN M
        ELSE [Settle(M, "connect", s, "", "resolve")
                  EXCEPT !.sockets[s].cp = "resolved", !.connectCallback = 0,
                         !.micro = Append(@, Micro("cpResolved", Send("", "", "call"), 0, s))]

\* _connectReject(e), code the code of e
connectReject(M, code) ==
    LET s == M.connectCallback
        M1 == [M EXCEPT !.connectPromise = 0, !.ws = 0]
    IN  IF s = 0 THEN M1
        ELSE [SettleCode(M1, "connect", s, "", "reject", code)
                  EXCEPT !.sockets[s].cp = "rejected", !.connectCallback = 0,
                         !.micro = Append(@, Micro("cpRejected", Send("", "", "call"), 0, s))]

\* _sendNow(method, params): the promise executor
sendNow(M, q) ==
    LET id == M.reqId
        st == IF M.ws = 0 THEN "null" ELSE M.sockets[M.ws].st
        throws == st \in {"null", "connecting", "failing"}
        rec == [method |-> q.method, rid |-> q.rid, cont |-> q.cont, h |-> q.h,
                sock |-> IF throws THEN 0 ELSE M.ws, inTable |-> TRUE,
                state |-> IF throws THEN "rejected" ELSE "pending"]
        M1 == [M EXCEPT !.reqId = id + 1, !.requests = Append(@, rec)]
    IN  IF id > MaxReq THEN [M EXCEPT !.ovf = TRUE]
        ELSE IF throws
        THEN [Settle(M1, "req", id, q.rid, "reject")
                  EXCEPT !.micro = Append(@, Micro("reject", q, id, 0))]
        ELSE IF st = "open"
        THEN [M1 EXCEPT !.out.sent = Append(@, [method |-> q.method, rid |-> q.rid, id |-> id])]
        ELSE M1

\* _send(action, rid, method, params)
send(M, q) ==
    IF M.connected THEN sendNow(M, q)
    ELSE LET M1 == connect(M)
             cp == M1.connectPromise
         IN  IF M1.ovf THEN M1
             ELSE IF Len(M1.queued) + M1.reqId > MaxReq THEN [M1 EXCEPT !.ovf = TRUE]
             ELSE IF M1.sockets[cp].cp = "resolved"
             THEN [M1 EXCEPT !.micro = Append(@, Micro("run", q, 0, cp))]
             ELSE [M1 EXCEPT !.queued = Append(@, [method |-> q.method, rid |-> q.rid,
                                                    cont |-> q.cont, h |-> q.h, cp |-> cp])]

\* _subscribe(ci, throwError) for the entry cached under rid
subscribe(M, rid, cont) ==
    send(removeStale(setSubscribed(M, rid, TRUE), rid), Send("subscribe", rid, cont))

\* _subscribeToStale(rid) that subscribes to a cached resource, stale or not
subscribeToStaleAlways(M, rid) ==
    IF ~M.connected \/ ~M.cache[rid].present THEN M
    ELSE subscribe(M, rid, "resub")

\* _subscribeToStale(rid)
subscribeToStale(M, rid) ==
    IF ~M.connected \/ rid \notin M.stale THEN M
    ELSE IF ~M.cache[rid].present THEN Throw(M)
    ELSE subscribe(M, rid, "resub")

RECURSIVE subscribeStaleFrom(_, _)
subscribeStaleFrom(M, i) ==
    IF M.err \/ i > Len(RidOrder) THEN M
    ELSE subscribeStaleFrom(subscribeToStale(M, RidOrder[i]), i + 1)
\* _subscribeToAllStale()
subscribeToAllStale(M) == subscribeStaleFrom(M, 1)

\* _handleFailedSubscribe(cacheItem) with the object the closure holds
handleFailedSubscribe(M, rid, h) ==
    IF h.live THEN tryDelete(setSubscribed(M, rid, FALSE), rid)
    ELSE tryDeleteDead(M, rid, [h.snap EXCEPT !.subscribed = FALSE])

RECURSIVE subscribeStaleRefs(_, _, _)
subscribeStaleRefs(M, refs, i) ==
    IF M.err \/ i > Len(refs.order) THEN M
    ELSE subscribeStaleRefs(IF refs.st[refs.order[i]] = stateStale
                            THEN subscribe(M, refs.order[i], "resub") ELSE M,
                            refs, i + 1)
\* _subscribeReferred(ci)
subscribeReferred(M, rid) ==
    LET c == [M.cache EXCEPT ![rid].subscribed = FALSE]
    IN  subscribeStaleRefs(M, getRefState(c, rid, c[rid]), 1)

\* _unsubscribe(ci) that sends the unsubscribe request before it subscribes to the
\* referred resources
unsubscribeFirst(M, rid) ==
    IF ~M.cache[rid].subscribed
    THEN IF rid \in M.stale THEN tryDelete(M, rid) ELSE M
    ELSE subscribeReferred(send(M, Send("unsubscribe", rid, "unsub")), rid)

\* _unsubscribe(ci), the callback of a CacheItem, for the entry cached under rid
unsubscribe(M, rid) ==
    IF ~M.cache[rid].subscribed
    THEN IF rid \in M.stale THEN tryDelete(M, rid) ELSE M
    ELSE send(subscribeReferred(M, rid), Send("unsubscribe", rid, "unsub"))

\* The rejection reactions chained on the promise of a send
failChain(M, q) ==
    IF q.cont = "get"
    THEN Settle(handleFailedSubscribe(M, q.rid, q.h), "get", q.id, q.rid, "reject")
    ELSE IF q.cont = "resub" THEN handleFailedSubscribe(M, q.rid, q.h)
    ELSE IF q.cont = "unsub"
    THEN IF q.h.live THEN tryDelete(M, q.rid) ELSE tryDeleteDead(M, q.rid, q.h.snap)
    ELSE Settle(M, "call", q.id, q.rid, "reject")

\* The fulfilment reactions chained on the promise of a send, B the result
okChain(M, q, B) ==
    IF q.cont \in {"get", "resub"}
    THEN LET M1 == cacheResources(M, B)
         IN  IF M1.err THEN failChain(Caught(M1), q)
             ELSE IF q.cont = "get" THEN Settle(M1, "get", q.id, q.rid, "resolve")
             ELSE M1
    ELSE IF q.cont = "unsub"
    THEN IF q.h.live THEN tryDelete(setSubscribed(M, q.rid, FALSE), q.rid)
         ELSE tryDeleteDead(M, q.rid, [q.h.snap EXCEPT !.subscribed = FALSE])
    ELSE Settle(M, "call", q.id, q.rid, "resolve")

\* The sends chained on connect promise s, as reactions of kind k, oldest first
RECURSIVE chained(_, _, _, _)
chained(qs, s, k, i) ==
    IF i > Len(qs) THEN << >>
    ELSE (IF qs[i].cp = s THEN << Micro(k, qs[i], 0, s) >> ELSE << >>) \o chained(qs, s, k, i + 1)

RECURSIVE Drain(_)
\* Runs the promise reactions queued in this turn, oldest first
Drain(M) ==
    IF M.micro = << >> \/ M.ovf THEN M
    ELSE LET t == Head(M.micro)
             M0 == [M EXCEPT !.micro = Tail(@)]
             rest == SelectSeq(M0.queued, LAMBDA x : x.cp # t.cp)
         IN  IF t.k = "run" THEN Drain(Caught(sendNow(M0, t)))
             ELSE IF t.k = "reject" THEN Drain(Caught(failChain(M0, t)))
             ELSE IF t.k = "cpResolved"
             THEN Drain([M0 EXCEPT !.queued = rest,
                                   !.micro = chained(M0.queued, t.cp, "run", 1) \o @])
             ELSE Drain([M0 EXCEPT !.queued = rest,
                                   !.micro = chained(M0.queued, t.cp, "reject", 1) \o @])

\* The then and catch chained on the onConnect hook in _handleOnopen
onOpenThen(M) ==
    LET M1 == subscribeToAllStale(M)
    IN  IF M1.err THEN wsClose(Caught(M1))
        ELSE connectResolve(emit(M1, "connect"))

-----------------------------------------------------------------------------
(* The handlers of the WebSocket events *)

RECURSIVE closeLoopNoStale(_, _, _)
\* The loop of _handleOnclose without its _addStale
closeLoopNoStale(M, rids, i) ==
    IF i > Len(rids) THEN M
    ELSE LET rid == rids[i]
         IN  IF M.cache[rid].present /\ M.cache[rid].subscribed
             THEN closeLoopNoStale(setSubscribed(M, rid, FALSE), rids, i + 1)
             ELSE closeLoopNoStale(M, rids, i + 1)

RECURSIVE closeLoop(_, _, _)
\* The loop of _handleOnclose over the keys of this.cache (a key deleted before
\* it is reached is not visited)
closeLoop(M, rids, i) ==
    IF i > Len(rids) THEN M
    ELSE LET rid == rids[i]
         IN  IF M.cache[rid].present /\ M.cache[rid].subscribed
             THEN closeLoop(tryDelete(addStale(setSubscribed(M, rid, FALSE), rid), rid), rids, i + 1)
             ELSE closeLoop(M, rids, i + 1)

\* _reconnect()
reconnect(M) ==
    IF Pending(M.timers, ReconnectTok) >= MaxTimers THEN [M EXCEPT !.ovf = TRUE]
    ELSE [M EXCEPT !.timers = Append(@, ReconnectTok)]

\* _handleOnclose(e)
handleOnclose(M) ==
    LET M1 == [M EXCEPT !.connectPromise = 0, !.ws = 0]
        M2 == IF M1.connected
              THEN emit(closeLoop([M1 EXCEPT !.connected = FALSE], M1.order, 1), "close")
              ELSE M1
        M3 == [M2 EXCEPT !.tryConnect = (M2.order # << >>) /\ @]
    IN  IF M3.tryConnect THEN reconnect(M3) ELSE M3

\* _handleOnerror(e)
handleOnerror(M) == connectReject(M, "system.connectionError")

\* _handleErrorResponse(req, data), with the reactions on the request's promise
handleErrorResponse(M, q) ==
    failChain(Settle(emit(M, "error"), "req", q.id, q.rid, "reject"), q)

\* _handleSuccessResponse(req, data) with the reactions on the request's promise left
\* for a later turn
handleSuccessResponseLater(M, q, B) == Settle(M, "req", q.id, q.rid, "resolve")

\* _handleSuccessResponse(req, data), with the reactions on the request's promise
handleSuccessResponse(M, q, B) ==
    okChain(Settle(M, "req", q.id, q.rid, "resolve"), q, B)

\* The request found by _receive, as the reactions see it
Req(M, id) == Micro("", M.requests[id], id, 0)

-----------------------------------------------------------------------------
(* The server and the network: what a conforming RES gateway may send *)

\* The model data that use the first key only
OneKey(S) == {d \in S : \A i \in 2..Len(Keys) : d[Keys[i]] = Absent}
WideModelData(r) == [KeySet -> {Absent} \cup WireVals(r)]
ModelData(r) == OneKey(WideModelData(r))
CollData(r) == UNION {[1..n -> WireVals(r)] : n \in 0..MaxLen}
BundleData(r) ==
    IF KindOf(r) = typeModel THEN {[in |-> TRUE, m |-> d, c |-> << >>] : d \in ModelData(r)}
    ELSE {[in |-> TRUE, m |-> EmptyModel, c |-> d] : d \in CollData(r)}
Bundles ==
    {B \in [RIDS -> UNION {BundleData(r) \cup {NoBundle[r]} : r \in RIDS}] :
        \A r \in RIDS : B[r] = NoBundle[r] \/ B[r] \in BundleData(r)}

\* The rids a set of wire values refers to
refsIn(vs) == {v.v : v \in {x \in vs : x.t = "ref"}}
wireRefs(B, r) ==
    IF ~B[r].in THEN {}
    ELSE refsIn({B[r].m[k] : k \in KeySet} \cup {B[r].c[i] : i \in 1..Len(B[r].c)})

RECURSIVE reachB(_, _, _)
reachB(B, S, n) ==
    IF n = 0 THEN S ELSE reachB(B, S \cup UNION {wireRefs(B, r) : r \in S}, n - 1)

\* Every reference of the bundle is to a resource in it or one the client has
Closed(c, B) == \A r \in RIDS : \A x \in wireRefs(B, r) : B[x].in \/ c[x].hasItem
\* The bundle holds only what the roots refer to
Rooted(B, roots) == \A r \in RIDS : B[r].in => r \in reachB(B, roots, Cardinality(RIDS))

\* The results of a subscribe request for rid
SubBundles(c, rid) == {B \in Bundles : B[rid].in /\ Closed(c, B) /\ Rooted(B, {rid})}
\* The resources sent with an event that refers to roots: those the client lacks
EvBundles(c, roots) ==
    {B \in Bundles : /\ Closed(c, B) /\ Rooted(B, roots)
                     /\ \A r \in roots : B[r].in \/ c[r].hasItem
                     /\ \A r \in RIDS : B[r].in => ~c[r].hasItem}

cacheRefs(c, r) ==
    IF ~c[r].hasItem THEN {}
    ELSE {c[r].m[k].v : k \in {x \in KeySet : c[r].m[x].t = "ref"}}
         \cup {c[r].c[i].v : i \in {x \in 1..Len(c[r].c) : c[r].c[x].t = "ref"}}
RECURSIVE reachC(_, _, _)
reachC(c, S, n) ==
    IF n = 0 THEN S ELSE reachC(c, S \cup UNION {cacheRefs(c, r) : r \in S}, n - 1)
\* The resources the server sends events for on socket s: subscribed directly or indirectly
Subscribed(s) == reachC(cache, srvSub[s], Cardinality(RIDS))

-----------------------------------------------------------------------------
(* The turns of the event loop.  For each, the operator named ...Turn gives *)
(* the client after the turn (the exception of the turn, if any, reported; *)
(* the promise reactions run), with what the turn did in its field out.    *)

diffVars == << dA, dB, dOps, dRes, dpc >>

Turn(M) == Drain(Caught(M))

\* The turn is taken, within the bounds of the model
Commit(D) ==
    /\ ~D.ovf
    /\ cache' = D.cache
    /\ cacheOrder' = D.order
    /\ stale' = D.stale
    /\ connected' = D.connected
    /\ tryConnect' = D.tryConnect
    /\ ws' = D.ws
    /\ connectPromise' = D.connectPromise
    /\ connectCallback' = D.connectCallback
    /\ reqId' = D.reqId
    /\ requests' = D.requests
    /\ queued' = D.queued
    /\ sockets' = D.sockets
    /\ srvSub' = D.srvSub
    /\ timers' = D.timers
    /\ UNCHANGED diffVars

(* Calls of the application *)

\* get(rid)
\* get(rid) without the look at the cache
GetTurnUncached(r) ==
    Turn([setPromise(subscribe(IF cache[r].present THEN Cur ELSE newEntry(Cur, r), r, "get"), r)
             EXCEPT !.out.ret = "new"])
GetTurn(r) ==
    Turn(IF cache[r].present
         THEN [Cur EXCEPT !.out.ret = IF cache[r].promise THEN "promise" ELSE "item"]
         ELSE [setPromise(subscribe(newEntry(Cur, r), r, "get"), r) EXCEPT !.out.ret = "new"])
Get(r) == Commit(GetTurn(r))

\* call(rid, method, params)
CallTurn(r) == Turn(send(Cur, Send("call", r, "call")))
CanCall ==
    Cardinality({i \in 1..Len(requests) : requests[i].method = "call"})
      + Cardinality({i \in 1..Len(queued) : queued[i].method = "call"}) < MaxCalls
Call(r) == CanCall /\ Commit(CallTurn(r))

\* The resources the application gets; the others are reached by reference
GetRids == {"a"}
\* The resource the application calls methods on
CallRid == "a"

\* connect()
ConnectTurn == Turn(connect(Cur))
Connect == Commit(ConnectTurn)

\* disconnect()
DisconnectTurn ==
    LET M == [Cur EXCEPT !.tryConnect = FALSE]
    IN  Turn(IF M.ws # 0 THEN connectReject(wsClose(M), "system.disconnect") ELSE M)
Disconnect == Commit(DisconnectTurn)

(* CacheItem.addDirect and removeDirect: not among the source files *)
addDirect(M, rid) == [M EXCEPT !.cache[rid].direct = @ + 1]
removeDirect(M, rid) ==
    LET M1 == [M EXCEPT !.cache[rid].direct = @ - 1]
    IN  IF M1.cache[rid].direct = 0 THEN unsubscribe(M1, rid) ELSE M1

\* resourceOn(rid, events, handler), called by the on method of an item
ResourceOnTurn(r) == Turn(addDirect(Cur, r))
CanResourceOn(r) == cache[r].hasItem /\ cache[r].direct < MaxDirect
ResourceOn(r) == CanResourceOn(r) /\ Commit(ResourceOnTurn(r))

\* resourceOff(rid, events, handler), called by the off method of an item
ResourceOffTurn(r) == Turn(removeDirect(Cur, r))
CanResourceOff(r) == cache[r].present /\ cache[r].direct > 0
ResourceOff(r) == CanResourceOff(r) /\ Commit(ResourceOffTurn(r))

(* WebSocket events *)

SockIds == 1..Len(sockets)

\* _handleOnopen(e); hk says whether the onConnect hook is settled within the turn
SockOpenTurn(s, hk) ==
    LET M == [Cur EXCEPT !.sockets[s].st = "open", !.connected = TRUE]
    IN  Turn(IF hk = "sync" THEN onOpenThen([M EXCEPT !.sockets[s].hook = "done"])
             ELSE [M EXCEPT !.sockets[s].hook = "pending"])
CanSockOpen(s) == sockets[s].st = "connecting"
SockOpen(s, hk) == CanSockOpen(s) /\ Commit(SockOpenTurn(s, hk))

\* The onConnect hook of socket s resolves
HookResolveTurn(s) == Turn(onOpenThen([Cur EXCEPT !.sockets[s].hook = "done"]))
\* The hook settles while its socket is open
CanHook(s) == sockets[s].hook = "pending" /\ sockets[s].st = "open"
HookResolve(s) == CanHook(s) /\ Commit(HookResolveTurn(s))

\* The onConnect hook of socket s rejects
HookRejectTurn(s) == Turn(wsClose([Cur EXCEPT !.sockets[s].hook = "failed"]))
HookReject(s) == CanHook(s) /\ Commit(HookRejectTurn(s))

\* A closed socket: its onConnect hook, if pending, is not heard of again
closedSocket(k) == [k EXCEPT !.st = "closed", !.hook = IF @ = "pending" THEN "none" ELSE @]

\* The requests framed on socket s will never be answered: what is left of them
\* is the table entry and the pending promise
lost(M, s) ==
    [M EXCEPT !.requests = [i \in 1..Len(M.requests) |->
                               IF M.requests[i].sock = s /\ M.requests[i].inTable
                               THEN [M.requests[i] EXCEPT !.h = NoHandle]
                               ELSE M.requests[i]]]

\* The socket is closed and the server forgets its subscriptions
gone(M, s) == lost([M EXCEPT !.sockets[s] = closedSocket(@), !.srvSub[s] = {}], s)

\* The connection fails (it cannot be established, or it breaks): the error event
\* and the close event are fired in one task; _handleOnerror(e), _handleOnclose(e)
SockFailTurn(s) == Turn(handleOnclose(Turn(handleOnerror(gone(Cur, s)))))
CanSockFail(s) == sockets[s].st \in {"connecting", "failing", "open"}
SockFail(s) == CanSockFail(s) /\ Commit(SockFailTurn(s))

\* The connection is closed cleanly; _handleOnclose(e)
SockCloseTurn(s) == Turn(handleOnclose(gone(Cur, s)))
CanSockClose(s) == sockets[s].st \in {"open", "closing"}
SockClose(s) == CanSockClose(s) /\ Commit(SockCloseTurn(s))

\* The server answers requests it received on a socket that is still open
Answerable(id) ==
    /\ requests[id].inTable
    /\ requests[id].sock # 0
    /\ sockets[requests[id].sock].st = "open"

\* The results the server may give to request id
Results(id) ==
    IF requests[id].method = "subscribe" THEN SubBundles(cache, requests[id].rid)
    ELSE {NoBundle}

\* _handleOnmessage(e), _receive: a success response to request id, B its resources
ResponseTurn(id, B) ==
    LET q == requests[id]
        M == [Cur EXCEPT !.requests[id] = Done(@),
                         !.srvSub[q.sock] = IF q.method = "subscribe" THEN @ \cup {q.rid}
                                            ELSE IF q.method = "unsubscribe" THEN @ \ {q.rid}
                                            ELSE @]
    IN  Turn(handleSuccessResponse(M, Req(Cur, id), B))
Response(id) ==
    /\ Answerable(id)
    /\ \E B \in Results(id) : Commit(ResponseTurn(id, B))

\* _handleOnmessage(e), _receive: an error response to request id
ErrResponseTurn(id) ==
    Turn(handleErrorResponse([Cur EXCEPT !.requests[id] = Done(@)], Req(Cur, id)))
ErrResponse(id) ==
    /\ Answerable(id)
    /\ Commit(ErrResponseTurn(id))

\* The server sends events on resource r over socket s
Sends(s, r) == sockets[s].st = "open" /\ cache[r].hasItem /\ r \in Subscribed(s)

WideChangeVals(r) == [KeySet -> {Absent, DeleteAction} \cup WireVals(r)] \ {EmptyModel}
ChangeVals(r) == OneKey(WideChangeVals(r))

\* _handleEvent: a change event
ChangeEventTurn(r, vals, B) == Turn(handleChangeEvent(Cur, r, vals, B))
\* The change events the server may send on r: the values and the resources with them
ChangeArgs(r) ==
    IF cache[r].type # typeModel THEN {}
    ELSE UNION {{[vals |-> vals, B |-> B] :
                     B \in EvBundles(cache, refsIn({vals[k] : k \in KeySet}))} :
                vals \in ChangeVals(r)}
ChangeEvent(s, r) ==
    /\ Sends(s, r)
    /\ \E x \in ChangeArgs(r) : Commit(ChangeEventTurn(r, x.vals, x.B))

\* _handleEvent: an add event
AddEventTurn(r, v, idx, B) == Turn(handleAddEvent(Cur, r, v, idx, B))
\* The add events the server may send on r
AddArgs(r) ==
    IF cache[r].type # typeCollection \/ Len(cache[r].c) >= MaxLen THEN {}
    ELSE UNION {{[v |-> v, idx |-> idx, B |-> B] :
                     idx \in 0..Len(cache[r].c), B \in EvBundles(cache, refsIn({v}))} :
                v \in WireVals(r)}
AddEvent(s, r) ==
    /\ Sends(s, r)
    /\ \E x \in AddArgs(r) : Commit(AddEventTurn(r, x.v, x.idx, x.B))

\* _handleEvent: a remove event
RemoveEventTurn(r, idx) == Turn(handleRemoveEvent(Cur, r, idx))
\* The remove events the server may send on r
RemoveArgs(r) == IF cache[r].type # typeCollection THEN {} ELSE 0..(Len(cache[r].c) - 1)
RemoveEvent(s, r) ==
    /\ Sends(s, r)
    /\ \E idx \in RemoveArgs(r) : Commit(RemoveEventTurn(r, idx))

\* _handleEvent: an unsubscribe event (the server ends a direct subscription)
UnsubscribeEventTurn(s, r) ==
    Turn(handleUnsubscribeEvent([Cur EXCEPT !.srvSub[s] = @ \ {r}], r))
CanUnsubscribeEvent(s, r) == Sends(s, r) /\ r \in srvSub[s]
UnsubscribeEvent(s, r) == CanUnsubscribeEvent(s, r) /\ Commit(UnsubscribeEventTurn(s, r))

(* Timers *)

\* Timers fire in the order of their deadlines: subscribeStaleDelay is shorter than
\* reconnectDelay, so a timer of _setStale waits for the earlier ones of its kind, a
\* timer of _reconnect for all the earlier ones
\* The timer set by _setStale fires
StaleTimerTurn(i) == Turn(subscribeToStale([Cur EXCEPT !.timers = Fired(@, i)], timers[i]))
CanStaleTimer(i) ==
    /\ timers[i] # ReconnectTok
    /\ \A j \in 1..(i - 1) : timers[j] = ReconnectTok
StaleTimer(i) == CanStaleTimer(i) /\ Commit(StaleTimerTurn(i))

\* The timer set by _reconnect fires
ReconnectTimerTurn ==
    LET M == [Cur EXCEPT !.timers = Tail(@)]
    IN  Turn(IF M.tryConnect THEN connect(M) ELSE M)
CanReconnectTimer == timers # << >> /\ Head(timers) = ReconnectTok
ReconnectTimer == CanReconnectTimer /\ Commit(ReconnectTimerTurn)

-----------------------------------------------------------------------------
(* The client after construction *)

InitClient ==
    /\ cache = [r \in RIDS |-> NoEntry]
    /\ cacheOrder = << >>
    /\ stale = {}
    /\ connected = FALSE
    /\ tryConnect = FALSE
    /\ ws = 0
    /\ connectPromise = 0
    /\ connectCallback = 0
    /\ reqId = 1
    /\ requests = << >>
    /\ queued = << >>
    /\ sockets = << >>
    /\ srvSub = [s \in 1..MaxSock |-> {}]
    /\ timers = << >>

Init ==
    /\ InitClient
    /\ dA = << >> /\ dB = << >> /\ dOps = << >> /\ dRes = << >> /\ dpc = "idle"

(* The resources of the client: subscriptions, events, listeners, the loss *)
(* of the connection and the reconnection                                  *)
Next ==
    \/ \E r \in GetRids : Get(r)
    \/ \E r \in RIDS : ResourceOn(r)
    \/ \E r \in RIDS : ResourceOff(r)
    \/ \E s \in SockIds : SockOpen(s, "sync")
    \/ \E s \in SockIds : SockClose(s)
    \/ \E id \in 1..Len(requests) : Response(id)
    \/ \E id \in 1..Len(requests) : ErrResponse(id)
    \/ \E s \in SockIds, r \in RIDS : ChangeEvent(s, r)
    \/ \E s \in SockIds, r \in RIDS : AddEvent(s, r)
    \/ \E s \in SockIds, r \in RIDS : RemoveEvent(s, r)
    \/ \E s \in SockIds, r \in RIDS : UnsubscribeEvent(s, r)
    \/ \E i \in 1..Len(timers) : StaleTimer(i)
    \/ ReconnectTimer

Spec == Init /\ [][Next]_vars

(* The connection and the requests: calls, connect and disconnect, the     *)
(* onConnect hook, connections that fail; the application listens to the   *)
(* resources it got, the server may end a subscription                     *)
NextConn ==
    \/ \E r \in GetRids : Get(r)
    \/ Call(CallRid)
    \/ Connect
    \/ Disconnect
    \/ \E r \in GetRids : ResourceOn(r)
    \/ \E s \in SockIds, r \in RIDS : UnsubscribeEvent(s, r)
    \/ \E s \in SockIds, hk \in {"sync", "async"} : SockOpen(s, hk)
    \/ \E s \in SockIds : HookResolve(s)
    \/ \E s \in SockIds : HookReject(s)
    \/ \E s \in SockIds : SockFail(s)
    \/ \E s \in SockIds : SockClose(s)
    \/ \E id \in 1..Len(requests) : Response(id)
    \/ \E id \in 1..Len(requests) : ErrResponse(id)
    \/ \E i \in 1..Len(timers) : StaleTimer(i)
    \/ ReconnectTimer

SpecConn == Init /\ [][NextConn]_vars

(* The first response to get, with resources that refer to each other and   *)
(* to themselves, any number of times                                       *)
CycMaxLen == 4
CycVals == {Prim(p) : p \in PRIMS} \cup {Ref(x) : x \in RIDS}
CycData(r) ==
    IF KindOf(r) = typeModel
    THEN {[in |-> TRUE, m |-> d, c |-> << >>] : d \in OneKey([KeySet -> {Absent} \cup CycVals])}
    ELSE {[in |-> TRUE, m |-> EmptyModel, c |-> d] :
             d \in UNION {[1..n -> CycVals] : n \in 0..CycMaxLen}}
\* The results of a subscribe request for rid
CycBundles(c, rid) ==
    {B \in [RIDS -> UNION {CycData(r) \cup {NoBundle[r]} : r \in RIDS}] :
        /\ \A r \in RIDS : B[r] = NoBundle[r] \/ B[r] \in CycData(r)
        /\ B[rid].in /\ Closed(c, B) /\ Rooted(B, {rid})}
CycResponse(id) ==
    /\ Answerable(id)
    /\ requests[id].method = "subscribe"
    /\ \E B \in CycBundles(cache, requests[id].rid) : Commit(ResponseTurn(id, B))

NextCyc ==
    \/ \E r \in GetRids : Get(r)
    \/ \E s \in SockIds : SockOpen(s, "sync")
    \/ \E id \in 1..Len(requests) : CycResponse(id)

SpecCyc == Init /\ [][NextCyc]_vars

(* A collection the application listens to goes stale with its connection   *)
(* and is resubscribed on the next: the snapshots are collections of up to  *)
(* SyncMaxLen elements                                                      *)
SyncMaxLen == 3
SyncRid == "b"
SyncData(r) ==
    IF KindOf(r) = typeModel THEN BundleData(r)
    ELSE {[in |-> TRUE, m |-> EmptyModel, c |-> d] :
             d \in UNION {[1..n -> WireVals(r)] : n \in 0..SyncMaxLen}}
\* The results of a subscribe request for rid
SyncBundles(c, rid) ==
    {B \in [RIDS -> UNION {SyncData(r) \cup {NoBundle[r]} : r \in RIDS}] :
        /\ \A r \in RIDS : B[r] = NoBundle[r] \/ B[r] \in SyncData(r)
        /\ B[rid].in /\ Closed(c, B) /\ Rooted(B, {rid})}
SyncResponse(id) ==
    /\ Answerable(id)
    /\ requests[id].method = "subscribe"
    /\ \E B \in SyncBundles(cache, requests[id].rid) : Commit(ResponseTurn(id, B))

NextSync ==
    \/ Get(SyncRid)
    \/ ResourceOn(SyncRid)
    \/ \E s \in SockIds : SockOpen(s, "sync")
    \/ \E s \in SockIds : SockClose(s)
    \/ \E id \in 1..Len(requests) : SyncResponse(id)
    \/ ReconnectTimer

SpecSync == Init /\ [][NextSync]_vars

(* A model with two fields: the responses and the change events that use    *)
(* both, so that a reference moves from one field to the other              *)
WideRid == "a"
WideData(r) ==
    IF KindOf(r) = typeModel
    THEN {[in |-> TRUE, m |-> d, c |-> << >>] : d \in WideModelData(r)}
    ELSE BundleData(r)
WideBundles ==
    {B \in [RIDS -> UNION {WideData(r) \cup {NoBundle[r]} : r \in RIDS}] :
        \A r \in RIDS : B[r] = NoBundle[r] \/ B[r] \in WideData(r)}
WideResponse(id) ==
    /\ Answerable(id)
    /\ requests[id].method = "subscribe"
    /\ \E B \in {X \in WideBundles : /\ X[requests[id].rid].in
                                      /\ Closed(cache, X)
                                      /\ Rooted(X, {requests[id].rid})} :
           Commit(ResponseTurn(id, B))
\* The change events the server may send on r: the values and the resources with them
WideChangeArgs(r) ==
    IF cache[r].type # typeModel THEN {}
    ELSE UNION {{[vals |-> vals, B |-> B] :
                     B \in {X \in WideBundles :
                               /\ Closed(cache, X)
                               /\ Rooted(X, refsIn({vals[k] : k \in KeySet}))
                               /\ \A t \in refsIn({vals[k] : k \in KeySet}) :
                                      X[t].in \/ cache[t].hasItem
                               /\ \A t \in RIDS : X[t].in => ~cache[t].hasItem}} :
                vals \in WideChangeVals(r)}
WideChangeEvent(s, r) ==
    /\ Sends(s, r)
    /\ \E x \in WideChangeArgs(r) : Commit(ChangeEventTurn(r, x.vals, x.B))

NextWide ==
    \/ Get(WideRid)
    \/ \E r \in RIDS : ResourceOn(r)
    \/ \E s \in SockIds : SockOpen(s, "sync")
    \/ \E id \in 1..Len(requests) : WideResponse(id)
    \/ \E s \in SockIds : WideChangeEvent(s, WideRid)

SpecWide == Init /\ [][NextWide]_vars

-----------------------------------------------------------------------------
(* The collection diff on its own: _patchDiff(a, b, onKeep, onAdd, onRemove) *)
(* for every pair of sequences, and its callbacks applied to a copy of a    *)

DiffSeqs == UNION {[1..n -> 1..DiffVals] : n \in 0..DiffMaxLen}

\* A pair of longer sequences: an element is removed and another added
DiffExample == << << 1, 2, 3, 4, 5 >>, << 1, 3, 4, 6, 5 >> >>
DiffPairs == (DiffSeqs \X DiffSeqs) \cup {DiffExample}

InitDiff ==
    /\ InitClient
    /\ \E p \in DiffPairs : dA = p[1] /\ dB = p[2]
    /\ dOps = << >>
    /\ dRes = << >>
    /\ dpc = "start"

clientVars == << cache, cacheOrder, stale, connected, tryConnect, ws, connectPromise,
                 connectCallback, reqId, requests, queued, sockets, srvSub, timers >>

\* _patchDiff runs: dOps are the calls of onRemove and onAdd, in the order made
RunDiff ==
    /\ dpc = "start"
    /\ dOps' = patchDiff(dA, dB)
    /\ dRes' = dA
    /\ dpc' = "apply"
    /\ UNCHANGED << dA, dB, clientVars >>

\* The next callback is applied to the copy
ApplyOp ==
    /\ dpc = "apply"
    /\ dOps # << >>
    /\ dRes' = IF Head(dOps).op = "remove" THEN RemoveAt(dRes, Head(dOps).idx)
               ELSE InsertAt(dRes, Head(dOps).idx, dB[Head(dOps).n + 1])
    /\ dOps' = Tail(dOps)
    /\ UNCHANGED << dA, dB, dpc, clientVars >>

\* All the callbacks are applied
DiffDone ==
    /\ dpc = "apply"
    /\ dOps = << >>
    /\ dpc' = "done"
    /\ UNCHANGED << dA, dB, dOps, dRes, clientVars >>

NextDiff == RunDiff \/ ApplyOp \/ DiffDone

SpecDiff == InitDiff /\ [][NextDiff]_vars

-----------------------------------------------------------------------------
(* The turns that can be taken in the current state: each with the operation, *)
(* its arguments, and the client after it (D)                                  *)

Step(op, rid, n, D) == [op |-> op, rid |-> rid, n |-> n, D |-> D]
Taken(S) == {x \in S : ~x.D.ovf}

GetSteps == {Step("get", r, 0, GetTurn(r)) : r \in GetRids}
CallSteps == IF CanCall THEN {Step("call", CallRid, 0, CallTurn(CallRid))} ELSE {}
ConnectSteps == {Step("connect", "", 0, ConnectTurn)}
DisconnectSteps == {Step("disconnect", "", 0, DisconnectTurn)}
ResourceOnSteps(R) ==
    {Step("resourceOn", r, 0, ResourceOnTurn(r)) : r \in {x \in R : CanResourceOn(x)}}
ResourceOffSteps ==
    {Step("resourceOff", r, 0, ResourceOffTurn(r)) : r \in {x \in RIDS : CanResourceOff(x)}}
SockOpenSteps(hks) ==
    {Step("open", x[2], x[1], SockOpenTurn(x[1], x[2])) :
        x \in {y \in SockIds \X hks : CanSockOpen(y[1])}}
HookResolveSteps ==
    {Step("hookResolve", "", s, HookResolveTurn(s)) : s \in {x \in SockIds : CanHook(x)}}
HookRejectSteps ==
    {Step("hookReject", "", s, HookRejectTurn(s)) : s \in {x \in SockIds : CanHook(x)}}
SockFailSteps ==
    {Step("fail", "", s, SockFailTurn(s)) : s \in {x \in SockIds : CanSockFail(x)}}
SockCloseSteps ==
    {Step("close", "", s, SockCloseTurn(s)) : s \in {x \in SockIds : CanSockClose(x)}}
\* The success responses that can arrive: the request, the result and the client after
Responses ==
    UNION {{[id |-> id, B |-> B, D |-> ResponseTurn(id, B)] : B \in Results(id)} :
           id \in {x \in 1..Len(requests) : Answerable(x)}}
ResponseSteps == {Step("response", requests[x.id].rid, x.id, x.D) : x \in Responses}
ErrResponseSteps ==
    {Step("errResponse", requests[id].rid, id, ErrResponseTurn(id)) :
        id \in {x \in 1..Len(requests) : Answerable(x)}}
Sending == {x \in SockIds \X RIDS : Sends(x[1], x[2])}
ChangeSteps ==
    UNION {{Step("change", x[2], x[1], ChangeEventTurn(x[2], y.vals, y.B)) :
                y \in ChangeArgs(x[2])} : x \in Sending}
AddSteps ==
    UNION {{Step("add", x[2], x[1], AddEventTurn(x[2], y.v, y.idx, y.B)) :
                y \in AddArgs(x[2])} : x \in Sending}
RemoveSteps ==
    UNION {{Step("remove", x[2], x[1], RemoveEventTurn(x[2], idx)) :
                idx \in RemoveArgs(x[2])} : x \in Sending}
UnsubscribeSteps ==
    {Step("unsubscribe", x[2], x[1], UnsubscribeEventTurn(x[1], x[2])) :
        x \in {y \in SockIds \X RIDS : CanUnsubscribeEvent(y[1], y[2])}}
StaleTimerSteps ==
    {Step("staleTimer", timers[i], i, StaleTimerTurn(i)) :
        i \in {x \in 1..Len(timers) : CanStaleTimer(x)}}
ReconnectTimerSteps ==
    IF CanReconnectTimer THEN {Step("reconnectTimer", "", 0, ReconnectTimerTurn)} ELSE {}

\* The steps of Next
Steps ==
    Taken(GetSteps \cup ResourceOnSteps(RIDS) \cup ResourceOffSteps \cup SockOpenSteps({"sync"})
          \cup SockCloseSteps \cup ResponseSteps \cup ErrResponseSteps \cup ChangeSteps
          \cup AddSteps \cup RemoveSteps \cup UnsubscribeSteps \cup StaleTimerSteps
          \cup ReconnectTimerSteps)
\* The steps of NextConn
StepsConn ==
    Taken(GetSteps \cup CallSteps \cup ConnectSteps \cup DisconnectSteps
          \cup ResourceOnSteps(GetRids) \cup UnsubscribeSteps
          \cup SockOpenSteps({"sync", "async"}) \cup HookResolveSteps \cup HookRejectSteps
          \cup SockFailSteps \cup SockCloseSteps \cup ResponseSteps \cup ErrResponseSteps
          \cup StaleTimerSteps \cup ReconnectTimerSteps)

\* The elements of a sequence
Range(q) == {q[i] : i \in 1..Len(q)}

-----------------------------------------------------------------------------
(* The reference counts *)

\* The number of fields or elements of the item of e that hold the resource x
RECURSIVE countIn(_, _)
countIn(vs, x) ==
    IF vs = << >> THEN 0
    ELSE (IF isResource(Head(vs)) /\ Head(vs).v = x THEN 1 ELSE 0) + countIn(Tail(vs), x)
RECURSIVE sumEdges(_, _, _)
sumEdges(c, x, i) ==
    IF i > Len(RidOrder) THEN 0
    ELSE (IF c[RidOrder[i]].present THEN countIn(itemValues(c[RidOrder[i]]), x) ELSE 0)
         + sumEdges(c, x, i + 1)
\* The edges held by cached resources that point at x
Edges(c, x) == sumEdges(c, x, 1)

\* C1: for every resource X in the cache, X.indirect equals the number of edges
\* (model fields or collection elements) held by cached resources that point at X.
C1_IndirectIsEdgeCount ==
    \A x \in RIDS : cache[x].present => cache[x].indirect = Edges(cache, x)


\* C2: a cache entry is never removed from the cache while, at the moment of
\* removal, it has direct > 0 or subscribed = true.  (The claim's third condition,
\* indirect > 0, is left out here: the members of an unreferenced cycle are removed
\* one after the other, each counted by the next.)  Every entry that a step removes
\* has no listener and is not subscribed.
C2_NeverEvictedWhileSubscribed ==
    \A x \in Steps : \A e \in Range(x.D.out.evicted) : e.direct = 0 /\ ~e.subscribed

\* C3: for every pair of sequences A and B over a bounded value set, applying the
\* onRemove and onAdd callbacks of _patchDiff(A, B) to a copy of A, in the order
\* emitted and at the indices emitted, yields exactly B.
C3_PatchDiffRoundTrip == dpc = "done" => dRes = dB
\* A has a duplicate and shares its first element with B, and both a remove and an add
\* were emitted and applied
C3_Witness ==
    /\ dpc = "done"
    /\ dRes = dB
    /\ Len(dA) = DiffMaxLen
    /\ dB # << >>
    /\ dA[1] = dB[1]
    /\ \E i, j \in 1..Len(dA) : i # j /\ dA[i] = dA[j]
    /\ \E i, j \in 1..Len(patchDiff(dA, dB)) :
            patchDiff(dA, dB)[i].op = "remove" /\ patchDiff(dA, dB)[j].op = "add"

\* Request id is in the request table and its promise is pending
Outstanding(id) ==
    id <= Len(requests) /\ requests[id].inTable /\ requests[id].state = "pending"

\* C4: every request placed in the request table by a send is eventually settled,
\* also when the transport closes or disconnect() is called while it is outstanding.
\* A request is settled by _receive alone, on a message of the connection it was sent
\* on, so a request that is to be settled is never outstanding on a closed connection.
C4_NoRequestLeftPending ==
    \A id \in 1..Len(requests) :
        Outstanding(id) => sockets[requests[id].sock].st \in {"open", "closing"}

\* What the application sees of a resource: its item and the item's contents
Contents(e) == [hasItem |-> e.hasItem, type |-> e.type, m |-> e.m, c |-> e.c]
\* The change, add and remove events among the resource events of a turn
DataEvents(D) == {e \in Range(D.out.events) : e.ev \in {"change", "add", "remove"}}
\* The resources the application listens to
Listened == {r \in RIDS : cache[r].present /\ cache[r].direct > 0}
\* The snapshots of result B are equal to what the client holds
Unchanged(B) ==
    \A r \in RIDS : B[r].in => cache[r].hasItem /\ B[r].m = cache[r].m /\ B[r].c = cache[r].c
\* A turn leaves every listened resource cached, with the item and contents it had
Kept(D) == \A r \in Listened : D.cache[r].present /\ Contents(D.cache[r]) = Contents(cache[r])

\* C5: across a disconnect and a reconnect in which the server returns snapshots equal
\* to the client's data, every resource with direct > 0 stays cached with the same item
\* and contents and is subscribed again, and no change, add or remove event is emitted.
\* Step by step: the close handler keeps the listened resources with their contents
\* (the items they hold are still the cached ones) and emits no such event; the open
\* handler subscribes again to every listened stale resource; the response, with
\* unchanged snapshots, to a renewed subscription still in force leaves the contents
\* alone, emits no such event and leaves the resource subscribed.
C5_ReconnectKeepsResources ==
    /\ \A x \in Steps : x.op = "close" => Kept(x.D) /\ DataEvents(x.D) = {}
    /\ \A x \in Steps : x.op = "open" =>
            /\ Kept(x.D)
            /\ \A r \in Listened \cap stale :
                    /\ x.D.cache[r].subscribed
                    /\ \E f \in Range(x.D.out.sent) : f.method = "subscribe" /\ f.rid = r
    /\ \A x \in Responses :
            (/\ ~x.D.ovf
             /\ requests[x.id].cont = "resub"
             /\ cache[requests[x.id].rid].subscribed
             /\ Unchanged(x.B)) =>
                /\ Kept(x.D)
                /\ DataEvents(x.D) = {}
                /\ requests[x.id].rid \in Listened => x.D.cache[requests[x.id].rid].subscribed

\* A get(rid) that finds a cache entry issues no request and changes nothing
NoRequest(D) ==
    /\ D.out.sent = << >>
    /\ D.requests = requests
    /\ D.queued = queued
    /\ D.reqId = reqId
    /\ D.sockets = sockets

\* C6: a get(rid) made while rid has a cache entry sends no subscribe request (the one
\* request is that of the get that made the entry); made while the subscription is in
\* flight it returns the entry's promise, made after materialization it resolves to
\* the cached item, without any request.
C6_GetWhileCached ==
    \A x \in Taken(GetSteps) : cache[x.rid].present =>
        /\ NoRequest(x.D)
        /\ x.D.cache = cache
        /\ x.D.out.ret = IF cache[x.rid].hasItem THEN "item" ELSE "promise"
\* get(rid) is called while the one subscribe request of rid is outstanding
C6_Witness ==
    \E x \in Taken(GetSteps) :
        /\ cache[x.rid].present
        /\ ~cache[x.rid].hasItem
        /\ cache[x.rid].promise
        /\ Cardinality({i \in 1..Len(requests) :
                            /\ Outstanding(i)
                            /\ requests[i].method = "subscribe"
                            /\ requests[i].rid = x.rid}) = 1
        /\ x.D.out.ret = "promise"
        /\ NoRequest(x.D)

\* The promises of get(rid) rejected in a turn, and those of rid settled in it
GetRejects(D) ==
    {i \in 1..Len(D.out.settled) : D.out.settled[i].p = "get" /\ D.out.settled[i].how = "reject"}
GetSettles(D, r) ==
    {i \in 1..Len(D.out.settled) : D.out.settled[i].p = "get" /\ D.out.settled[i].rid = r}
\* The connection s is lost in this step
Loses(x) == x.op \in {"close", "fail"}

\* C7: if the subscribe request issued by get(rid) fails, by an error response or by
\* the failure of the connection, then afterwards rid has no cache entry and is not
\* stale, and the promise of get is rejected exactly once.  In a step in which a
\* promise of get is rejected, the entry is gone, the rid is not stale and the promise
\* is settled once; in a step in which the connection is lost, the promise of every
\* get outstanding on it is rejected.
C7_FailedGetEvicts ==
    /\ \A x \in StepsConn : \A i \in GetRejects(x.D) :
            /\ ~x.D.cache[x.D.out.settled[i].rid].present
            /\ x.D.out.settled[i].rid \notin x.D.stale
            /\ Cardinality(GetSettles(x.D, x.D.out.settled[i].rid)) = 1
    /\ \A x \in StepsConn : Loses(x) =>
            \A id \in 1..Len(requests) :
                (Outstanding(id) /\ requests[id].sock = x.n /\ requests[id].cont = "get")
                    => \E i \in GetRejects(x.D) : x.D.out.settled[i].rid = requests[id].rid

\* C8: when a subscribe request fails, no client-level 'error' event is emitted.
\* The turn of an error response to a subscribe request emits no 'error'.
C8_NoErrorEventForSubscribe ==
    \A x \in Steps :
        (x.op = "errResponse" /\ requests[x.n].method = "subscribe")
            => \A i \in 1..Len(x.D.out.cev) : x.D.out.cev[i] # "error"

\* C9: after the close handler has run for an established connection, no cache entry
\* has subscribed = true, and every entry that was subscribed and has direct > 0 is
\* still in the cache and is in the stale set.
C9_CloseMakesStale ==
    \A x \in Steps : (x.op = "close" /\ connected) =>
        /\ \A r \in RIDS : x.D.cache[r].present => ~x.D.cache[r].subscribed
        /\ \A r \in RIDS :
              (cache[r].present /\ cache[r].subscribed /\ cache[r].direct > 0)
                  => x.D.cache[r].present /\ r \in x.D.stale
\* The connection closes with a subscribed resource that is listened to, which the
\* handler keeps as stale, and a subscribed one that is not, which it evicts
C9_Witness ==
    \E x \in Steps :
        /\ x.op = "close"
        /\ connected
        /\ \E r \in RIDS : /\ cache[r].present /\ cache[r].subscribed /\ cache[r].direct > 0
                           /\ r \in x.D.stale /\ ~x.D.cache[r].subscribed
        /\ \E r \in RIDS : /\ cache[r].present /\ cache[r].subscribed /\ cache[r].direct = 0
                           /\ ~x.D.cache[r].present

\* An onConnect hook is pending after the turn
HookPending(D) ==
    \E s \in 1..Len(D.sockets) : D.sockets[s].st = "open" /\ D.sockets[s].hook = "pending"
\* The subscribe requests framed in the turn for rids that were stale
StaleSubs(D) ==
    {i \in 1..Len(D.out.sent) : D.out.sent[i].method = "subscribe" /\ D.out.sent[i].rid \in stale}
ConnResolved(D) ==
    {i \in 1..Len(D.out.settled) :
        D.out.settled[i].p = "connect" /\ D.out.settled[i].how = "resolve"}

\* C10: after a transport open, no subscribe request for a stale RID is sent and the
\* connect promise is not resolved before the onConnect hook has resolved; once it
\* has, a subscribe request is issued for every stale RID and the connect promise is
\* resolved.
C10_HookBeforeResubscribe ==
    \A x \in StepsConn :
        /\ HookPending(x.D) => StaleSubs(x.D) = {} /\ ConnResolved(x.D) = {}
        /\ x.op = "hookResolve" =>
              /\ \A r \in stale : \E i \in StaleSubs(x.D) : x.D.out.sent[i].rid = r
              /\ connectCallback # 0 => ConnResolved(x.D) # {}

\* The operations the application starts a connection with
AppConnects == {"get", "call", "connect"}
\* The turn opens a new transport
OpensTransport(x) == Len(x.D.sockets) > Len(sockets)
\* The turn sets the reconnect timer
SetsReconnect(x) ==
    Pending(x.D.timers, ReconnectTok) > Pending(timers, ReconnectTok)
ConnRejected(D, code) ==
    {i \in 1..Len(D.out.settled) :
        /\ D.out.settled[i].p = "connect"
        /\ D.out.settled[i].how = "reject"
        /\ D.out.settled[i].code = code}

\* C11: the reconnect timer opens a new transport only if tryConnect is true when it
\* fires, and it is set only if the cache was non-empty when the close was handled;
\* after disconnect() (which clears tryConnect, and nothing but a call of the
\* application sets it again) the library opens no transport; a connect promise
\* pending at disconnect() is rejected with code system.disconnect.
C11_ReconnectOnlyIfWanted ==
    \A x \in StepsConn :
        /\ x.op \notin AppConnects =>
              /\ OpensTransport(x) => x.op = "reconnectTimer" /\ tryConnect
              /\ x.D.tryConnect => tryConnect
        /\ SetsReconnect(x) => Loses(x) /\ x.D.order # << >> /\ tryConnect
        /\ x.op = "disconnect" =>
              /\ ~x.D.tryConnect
              /\ connectCallback # 0 => ConnRejected(x.D, "system.disconnect") # {}

\* The first responses that can arrive under NextCyc
CycResponses ==
    UNION {{[id |-> id, B |-> B, D |-> ResponseTurn(id, B)] :
                B \in CycBundles(cache, requests[id].rid)} :
           id \in {x \in 1..Len(requests) : Answerable(x) /\ requests[x].method = "subscribe"}}
\* After the turn the resources of B are materialized as B says: every reference is
\* the item cached under the rid it names, and indirect counts the edges
Materialized(B, D) ==
    \A r \in RIDS : B[r].in =>
        /\ D.cache[r].hasItem
        /\ D.cache[r].m = B[r].m
        /\ D.cache[r].c = B[r].c
        /\ \A x \in refsIn({B[r].m[k] : k \in KeySet} \cup Range(B[r].c)) : D.cache[x].hasItem
        /\ D.cache[r].indirect = Edges(D.cache, r)

\* C12: materializing a response bundle whose resources refer to each other in a
\* cycle, or to themselves, completes (the promise of get resolves); every reference
\* is resolved to the item cached under the rid it names, which exists by then, and
\* indirect is counted once per edge.
C12_CyclicBundle ==
    \A x \in CycResponses :
        (~x.D.ovf /\ \A r \in RIDS : x.B[r].in => ~cache[r].hasItem) =>
            /\ Materialized(x.B, x.D)
            /\ \E i \in GetSettles(x.D, requests[x.id].rid) : x.D.out.settled[i].how = "resolve"
\* The response has a model that refers to a collection that refers back to the model
\* twice and to itself
C12_Witness ==
    \E x \in CycResponses :
        /\ ~x.D.ovf
        /\ x.B["a"].m["k1"] = Ref("b")
        /\ x.B["b"].c = << Ref("a"), Ref("b"), Ref("a") >>
        /\ Materialized(x.B, x.D)
        /\ x.D.cache["a"].indirect = 2
        /\ x.D.cache["b"].indirect = 2

\* Among the responses S, those that resubscribe a stale resource of the given type:
\* the server answers the subscribe request that _subscribeToStale sent for a rid
\* whose item the client holds, with a snapshot of it
Resyncs(S, type) ==
    {x \in S :
        /\ ~x.D.ovf
        /\ requests[x.id].cont = "resub"
        /\ cache[requests[x.id].rid].hasItem
        /\ cache[requests[x.id].rid].type = type
        /\ x.B[requests[x.id].rid].in}
StaleResyncs(type) == Resyncs(Responses, type)
\* The keys of the change events a turn emits on rid
ChangeKeys(D, rid) ==
    {D.out.events[i].keys : i \in {j \in 1..Len(D.out.events) :
                                       D.out.events[j].rid = rid /\ D.out.events[j].ev = "change"}}
Differing(old, new) == {k \in KeySet : old[k] # new[k]}

\* C13: when a stale model is resubscribed and the response carries a snapshot of it,
\* after the sync the model's fields and values are those of the snapshot (a field the
\* snapshot does not have is absent), and the change event carries exactly the keys
\* whose value changed (no change event when none did).
C13_ModelSyncEqualsSnapshot ==
    \A x \in StaleResyncs(typeModel) :
        LET r == requests[x.id].rid
            diff == Differing(cache[r].m, x.B[r].m)
        IN  /\ x.D.cache[r].hasItem
            /\ x.D.cache[r].m = x.B[r].m
            /\ ChangeKeys(x.D, r) = IF diff = {} THEN {} ELSE {diff}

\* The responses that can arrive under NextSync
SyncResponses ==
    UNION {{[id |-> id, B |-> B, D |-> ResponseTurn(id, B)] :
                B \in SyncBundles(cache, requests[id].rid)} :
           id \in {x \in 1..Len(requests) : Answerable(x) /\ requests[x].method = "subscribe"}}
\* The client as _cacheResources leaves it when it is given the result of request x.id
Synced(x) == cacheResources(Caught([Cur EXCEPT !.requests[x.id] = Done(@)]), x.B)
\* The elements of collection rid that the diff with snapshot data leaves in place
MatchedElems(rid, data) ==
    LET ops == patchDiff(cache[rid].c, data)
        removed == {ops[i].idx + 1 : i \in {j \in 1..Len(ops) : ops[j].op = "remove"}}
    IN  {cache[rid].c[i] : i \in (1..Len(cache[rid].c)) \ removed}

\* C14: when a stale collection is resubscribed and the response carries a snapshot B
\* of it, the sync completes without error, the collection is B with every reference
\* resolved to the cached item of its rid, every resource B refers to is cached, and
\* the items of the elements that the diff leaves in place are not replaced.
C14_CollectionSyncEqualsSnapshot ==
    \A x \in Resyncs(SyncResponses, typeCollection) :
        LET r == requests[x.id].rid
        IN  /\ ~Synced(x).err
            /\ x.D.cache[r].hasItem
            /\ x.D.cache[r].c = x.B[r].c
            /\ \A t \in refsIn(Range(x.B[r].c)) : x.D.cache[t].hasItem
            /\ \A t \in refsIn(MatchedElems(r, x.B[r].c)) : t \notin Range(x.D.out.evicted)

RECURSIVE LCSLen(_, _)
\* The length of the longest common subsequence of a and b
LCSLen(a, b) ==
    IF a = << >> \/ b = << >> THEN 0
    ELSE IF Head(a) = Head(b) THEN 1 + LCSLen(Tail(a), Tail(b))
    ELSE Max(LCSLen(Tail(a), b), LCSLen(a, Tail(b)))
OpsAt(ops, op) == {i \in 1..Len(ops) : ops[i].op = op}
\* The calls ops are removes then adds, the removes at descending and the adds at
\* ascending indices, as many as the elements of a and of b outside their LCS
WellOrdered(ops, a, b) ==
    /\ \A i \in OpsAt(ops, "remove") : \A j \in OpsAt(ops, "add") : i < j
    /\ \A i, j \in OpsAt(ops, "remove") : i < j => ops[i].idx > ops[j].idx
    /\ \A i, j \in OpsAt(ops, "add") : i < j => ops[i].idx < ops[j].idx
    /\ Cardinality(OpsAt(ops, "remove")) = Len(a) - LCSLen(a, b)
    /\ Cardinality(OpsAt(ops, "add")) = Len(b) - LCSLen(a, b)
\* The calls expected for DiffExample: remove idx=1, add idx=3 of the value 6 (b[3])
ExampleOps(ops, b) ==
    /\ Len(ops) = 2
    /\ ops[1].op = "remove" /\ ops[1].idx = 1
    /\ ops[2].op = "add" /\ ops[2].idx = 3 /\ b[ops[2].n + 1] = 6

\* C15: for every A and B, _patchDiff calls onRemove for all removes before it calls
\* onAdd, the removes in strictly descending and the adds in strictly ascending index
\* order, with |A| - LCS(A, B) removes and |B| - LCS(A, B) adds; for A = [1,2,3,4,5]
\* and B = [1,3,4,6,5] the calls are remove idx=1, add idx=3 value=6.
C15_PatchDiffOrder ==
    [][(dpc = "start" /\ dpc' = "apply") =>
          /\ WellOrdered(dOps', dA, dB)
          /\ << dA, dB >> = DiffExample => ExampleOps(dOps', dB)]_vars
\* _patchDiff has run on the example and made the two calls
C15_Witness ==
    /\ dpc = "apply"
    /\ << dA, dB >> = DiffExample
    /\ dRes = dA
    /\ ExampleOps(dOps, dB)
    /\ WellOrdered(dOps, dA, dB)

\* The calls framed in a turn
CallsFramed(D) == {i \in 1..Len(D.out.sent) : D.out.sent[i].method = "call"}
\* The calls waiting for a connect promise
QueuedCalls(qs) == {q \in Range(qs) : q.method = "call"}
\* The promise of a call is rejected in the turn
CallRejected(D) ==
    \E i \in 1..Len(D.out.settled) : D.out.settled[i].p = "call" /\ D.out.settled[i].how = "reject"

\* C16: a call issued while not connected starts a connection and is framed only after
\* the connect promise resolves; if the connection attempt fails (transport error,
\* close before the connect promise resolves, failing onConnect hook) the promise of
\* the call is rejected, not left pending.  Step by step: a call made while not
\* connected frames nothing, has a connect promise and waits for it; a call is framed
\* in a later turn only when the connect promise it waits for is resolved; a step in
\* which the socket of a connect promise is lost, with no onConnect hook still to
\* settle, leaves no call waiting for that promise.
C16_CallWaitsForConnect ==
    \A x \in StepsConn :
        /\ (x.op = "call" /\ ~connected) =>
              /\ CallsFramed(x.D) = {}
              /\ x.D.connectPromise # 0
              /\ \/ \E q \in QueuedCalls(x.D.queued) : q.cp = x.D.connectPromise
                 \/ CallRejected(x.D)
        /\ (x.op # "call" /\ CallsFramed(x.D) # {}) =>
              \E q \in QueuedCalls(queued) : x.D.sockets[q.cp].cp = "resolved"
        /\ (Loses(x) /\ sockets[x.n].hook # "pending") =>
              \A q \in QueuedCalls(x.D.queued) : q.cp # x.n

\* The rids whose entry a turn removes from the cache
Removed(D) == {r \in RIDS : \E i \in 1..Len(D.out.evicted) : D.out.evicted[i].rid = r}

C18_UnsubscribedIsStale ==
    \A r \in RIDS :
        (cache[r].present /\ ~cache[r].subscribed /\ cache[r].indirect = 0) => r \in stale

\* The edges pointing at x held by the cached resources in the set S
EdgesFrom(c, S, x) == Edges([r \in RIDS |-> IF r \in S THEN c[r] ELSE NoEntry], x)
\* The rids in the map of _getRefState
MapOf(refs) == Range(refs.order)
\* The cached rids that are not in the map
OutsideOf(c, refs) == {r \in RIDS : c[r].present} \ MapOf(refs)
\* After the first traversal, the rc of every entry of the map counts the edges that
\* point at it from outside the map
SeekCounts(c, refs) ==
    \A x \in MapOf(refs) :
        /\ refs.rc[x] = c[x].indirect - EdgesFrom(c, MapOf(refs), x)
        /\ refs.rc[x] = EdgesFrom(c, OutsideOf(c, refs), x)
\* The cache that _getRefState sees when _handleUnsubscribeEvent runs on rid
Unsubscribing(rid) == [cache EXCEPT ![rid].subscribed = FALSE]

\* C19: for an unsubscribed root and any cache graph, after the first traversal of
\* _getRefState the rc of every entry X in the map equals the number of edges pointing
\* at X from cached resources that are not in the map, which is X.indirect minus the
\* number of edges from map members to X.  The roots are the resources for which the
\* server may send an unsubscribe event, the cache the one _handleUnsubscribeEvent
\* passes on.
C19_SeekRefsCountsOutsideEdges ==
    \A r \in {x \in RIDS : \E s \in SockIds : CanUnsubscribeEvent(s, x)} :
        SeekCounts(Unsubscribing(r), seekRefs(Unsubscribing(r), r, Unsubscribing(r)[r]))

\* The resources that rid reaches through references, rid included
Reach(c, rid) == reachC(c, {rid}, Cardinality(RIDS))
\* rid is the subscribed root of a reference cycle whose members have no listener, are
\* not subscribed themselves and are referred to by its members only
LoneCycle(c, rid) ==
    /\ c[rid].hasItem /\ c[rid].subscribed
    /\ Reach(c, rid) # {rid}
    /\ \A r \in Reach(c, rid) :
          /\ c[r].hasItem /\ c[r].direct = 0
          /\ r # rid => ~c[r].subscribed
          /\ rid \in Reach(c, r)
          /\ EdgesFrom(c, RIDS \ Reach(c, rid), r) = 0
\* The fields and elements of cached resources that hold the item of an entry that is
\* no longer in the cache
Dangling(c) ==
    {<< r, v >> \in RIDS \X {Dead(x) : x \in RIDS} : c[r].present /\ v \in Range(itemValues(c[r]))}

\* C20: when the root of a reference cycle loses its subscription and no member of the
\* cycle has direct listeners, is subscribed or is referenced from outside the cycle,
\* every member is evicted in that pass; after a pass that evicts, no resource that
\* remains in the cache holds an edge to an evicted resource.
C20_CycleEvictedNoDangling ==
    \A x \in Steps :
        /\ (x.op = "unsubscribe" /\ LoneCycle(cache, x.rid)) =>
              \A r \in Reach(cache, x.rid) : r \in Removed(x.D) /\ ~x.D.cache[r].present
        /\ Removed(x.D) # {} => Dangling(x.D.cache) = {}

\* The change events that can arrive on the model under NextWide
WideChanges ==
    IF \E s \in SockIds : Sends(s, WideRid)
    THEN {[vals |-> y.vals, B |-> y.B, D |-> ChangeEventTurn(WideRid, y.vals, y.B)] :
             y \in WideChangeArgs(WideRid)}
    ELSE {}
\* The fields of the model that hold a reference to r and are given a value by vals
RefsTaken(vals, r) == {k \in KeySet : vals[k] # Absent /\ cache[WideRid].m[k] = Ref(r)}
\* The fields that vals sets to a reference to r
RefsGiven(vals, r) == {k \in KeySet : vals[k] = Ref(r)}
\* The change takes as many references to r from the model as it gives it, at least one
Moves(vals, r) ==
    /\ RefsGiven(vals, r) # {}
    /\ Cardinality(RefsGiven(vals, r)) = Cardinality(RefsTaken(vals, r))
\* rm of _handleChangeEvent for the values vals, after the resources B are cached
RmOf(vals, B) ==
    changeLoop(cacheResources(Cur, B), cache[WideRid], vals, 1, NoRm,
               [k \in KeySet |-> Skip]).rm

\* C21: when one change event removes a reference to r from one field of a model and
\* adds a reference to r in another field, or replaces a reference to r by a reference
\* to r, the indirect count of r is the same before and after the event, r is not
\* handed to _tryDelete (its count in rm is 0) and r is not evicted.
C21_MovedReferenceKept ==
    \A x \in WideChanges : \A r \in RIDS :
        (~x.D.ovf /\ cache[r].present /\ Moves(x.vals, r)) =>
            /\ x.D.cache[r].present
            /\ x.D.cache[r].indirect = cache[r].indirect
            /\ RmOf(x.vals, x.B).n[r] = 0
            /\ r \notin Removed(x.D)
\* A change event takes the reference to b from k1 and puts it in k2, and b, which
\* nothing else keeps, is still cached with its count
C21_Witness ==
    \E x \in WideChanges :
        /\ ~x.D.ovf
        /\ cache[WideRid].m = [k1 |-> Ref("b"), k2 |-> Absent]
        /\ cache["b"].present /\ cache["b"].direct = 0 /\ cache["b"].indirect = 1
        /\ x.vals = [k1 |-> DeleteAction, k2 |-> Ref("b")]
        /\ x.D.cache[WideRid].m = [k1 |-> Absent, k2 |-> Ref("b")]
        /\ x.D.cache["b"].indirect = 1

\* The responses to the subscribe request of a resource that has no item yet
FirstResponses ==
    {x \in Responses : /\ ~x.D.ovf
                       /\ requests[x.id].method = "subscribe"
                       /\ ~cache[requests[x.id].rid].hasItem}

\* C22: an event for a rid that is delivered after the subscribe response for it is
\* handled after the response has been materialized: the turn that handles the
\* response, the first turn after which the server sends events on the rid, leaves the
\* item created, typed and initialized from the response, with no promise reaction left
\* to run.
C22_MaterializedBeforeEvents ==
    \A x \in FirstResponses :
        LET r == requests[x.id].rid
        IN  /\ x.D.cache[r].hasItem
            /\ x.D.cache[r].type = KindOf(r)
            /\ x.D.cache[r].m = x.B[r].m
            /\ x.D.cache[r].c = x.B[r].c
            /\ x.D.micro = << >>
            /\ r \in x.D.srvSub[requests[x.id].sock]
\* The response to get is about to be handled, and leaves a model that refers to a
\* collection
C22_Witness ==
    \E x \in FirstResponses :
        /\ requests[x.id].cont = "get"
        /\ x.B["a"].m["k1"] = Ref("b")
        /\ x.D.cache["a"].hasItem
        /\ x.D.cache["a"].m["k1"] = Ref("b")
        /\ x.D.cache["b"].hasItem


\* The requests framed in a turn
Framed(D) == Range(D.out.sent)
\* The timer of _setStale fires and the client is, but for the timer, as it was
Idle(x) ==
    /\ x.D.reqId = reqId /\ x.D.requests = requests /\ x.D.queued = queued
    /\ x.D.cache = cache /\ x.D.stale = stale /\ x.D.out.sent = << >>
    /\ x.D.sockets = sockets /\ x.D.timers = Fired(timers, x.n)
C24_ConnectedHasSocket == connected => (ws # 0 /\ sockets[ws].st = "open")


\* The responses to an unsubscribe request for a resource that has a listener again
Relistened ==
    {x \in Taken(ResponseSteps) :
        requests[x.n].method = "unsubscribe" /\ cache[x.rid].present /\ cache[x.rid].direct > 0}
\* The references to rid held by cached resources that rid, once unsubscribed, does not
\* reach through unsubscribed resources
OutsideEdges(rid) ==
    LET c == Unsubscribing(rid)
    IN  EdgesFrom(c, OutsideOf(c, seekRefs(c, rid, c[rid])), rid)
\* C25: when the response to an unsubscribe request arrives for a resource that has a
\* listener again, the resource is not evicted: it is marked unsubscribed and, unless a
\* resource outside of what it reaches still refers to it, it is put in the stale set,
\* with the timer set that sends the subscribe request (C23) while the client is
\* connected.
C25_RelistenedIsResubscribed ==
    \A x \in Relistened :
        /\ x.D.cache[x.rid].present
        /\ ~x.D.cache[x.rid].subscribed
        /\ (OutsideEdges(x.rid) = 0) =>
              /\ x.rid \in x.D.stale
              /\ x.D.connected => Pending(x.D.timers, x.rid) > 0


\* The error responses to the subscribe request that _subscribeToStale or
\* _subscribeReferred sent for a resource that has a listener
FailedResubs ==
    {x \in Taken(ErrResponseSteps) :
        requests[x.n].cont = "resub" /\ cache[x.rid].present /\ cache[x.rid].direct > 0}
\* The entry of rid is cached after the turn with the item and the listeners it had
ItemKept(D, rid) ==
    /\ D.cache[rid].present
    /\ D.cache[rid].hasItem = cache[rid].hasItem
    /\ D.cache[rid].m = cache[rid].m /\ D.cache[rid].c = cache[rid].c
    /\ D.cache[rid].direct = cache[rid].direct
\* C26: when the resubscription of a resource that has a listener fails, the resource
\* stays in the cache with its item unchanged and ends with subscribed = false; unless a
\* resource outside of what it reaches still refers to it, it is back in the stale set,
\* with a new timer while the client is connected; no promise of a caller is rejected
\* and no error leaves the handler.
C26_FailedResubscribeStaysStale ==
    \A x \in FailedResubs :
        /\ ItemKept(x.D, x.rid)
        /\ ~x.D.cache[x.rid].subscribed
        /\ (OutsideEdges(x.rid) = 0) =>
              /\ x.rid \in x.D.stale
              /\ x.D.connected => Pending(x.D.timers, x.rid) > 0
        /\ \A i \in 1..Len(x.D.out.settled) : x.D.out.settled[i].p = "req"
        /\ ~x.D.err


\* The turns in which the last listener of a subscribed resource is removed, and
\* _unsubscribe runs on it
Unsubscribes ==
    {x \in Taken(ResourceOffSteps) : cache[x.rid].subscribed /\ cache[x.rid].direct = 1}
\* The map of _getRefState for rid as if it were unsubscribed, its last listener removed
ProbeRefs(rid) ==
    LET c == [cache EXCEPT ![rid].subscribed = FALSE, ![rid].direct = 0]
    IN  getRefState(c, rid, c[rid])
\* The resources that would be classified stale if rid were unsubscribed
WouldBeStale(rid) == {r \in MapOf(ProbeRefs(rid)) : ProbeRefs(rid).st[r] = stateStale}
\* The subscribe requests framed in a turn
Subscribes(D) == {i \in 1..Len(D.out.sent) : D.out.sent[i].method = "subscribe"}
\* What _unsubscribe does on the subscribed x.rid, staleAfter the stale set it leaves
Probed(x, staleAfter) ==
    LET n == Len(x.D.out.sent)
    IN  /\ n = Cardinality(WouldBeStale(x.rid)) + 1
        /\ x.D.out.sent[n].method = "unsubscribe" /\ x.D.out.sent[n].rid = x.rid
        /\ Subscribes(x.D) = 1..(n - 1)
        /\ {x.D.out.sent[i].rid : i \in Subscribes(x.D)} = WouldBeStale(x.rid)
        /\ \A r \in RIDS : cache[r].present => x.D.cache[r].present
        /\ Removed(x.D) = {}
        /\ x.D.stale = staleAfter
        /\ x.D.cache[x.rid].subscribed
-----------------------------------------------------------------------------
(* The reference state engine on the cache graphs of two resources: a     *)
(* model and a collection that may refer to each other and to themselves, *)
(* more than once                                                         *)

RefMaxLen == 2
\* The values held in the resources of a graph
RefVals == {Prim(p) : p \in PRIMS} \cup {Ref(t) : t \in RIDS}
RefModels == [KeySet -> {Absent} \cup RefVals]
RefCollections == UNION {[1..n -> RefVals] : n \in 0..RefMaxLen}
\* The cache that holds model m and collection q, d the listeners and s the subscribed
\* flags, before the reference counts are set
RefShape(m, q, d, s) ==
    [r \in RIDS |->
        [NewCacheItem EXCEPT !.hasItem = TRUE, !.type = KindOf(r),
                             !.m = IF KindOf(r) = typeModel THEN m ELSE EmptyModel,
                             !.c = IF KindOf(r) = typeCollection THEN q ELSE << >>,
                             !.direct = d[r], !.subscribed = s[r]]]
\* The cache graphs: indirect counts the references held in the cache
RefGraph(m, q, d, s) ==
    [r \in RIDS |-> [RefShape(m, q, d, s)[r] EXCEPT !.indirect = Edges(RefShape(m, q, d, s), r)]]
InitRef ==
    /\ \E m \in RefModels, q \in RefCollections, d \in [RIDS -> 0..MaxDirect],
          s \in [RIDS -> BOOLEAN] : cache = RefGraph(m, q, d, s)
    /\ cacheOrder = RidOrder
    /\ stale = {}
    /\ connected = FALSE /\ tryConnect = FALSE /\ ws = 0
    /\ connectPromise = 0 /\ connectCallback = 0
    /\ reqId = 1 /\ requests = << >> /\ queued = << >> /\ sockets = << >>
    /\ srvSub = [s \in 1..MaxSock |-> {}]
    /\ timers = << >>
    /\ dA = << >> /\ dB = << >> /\ dOps = << >> /\ dRes = << >> /\ dpc = "idle"

\* _tryDelete(ci) on a cached resource that is not subscribed
TryDeleteTurn(r) == Turn(tryDelete(Cur, r))
TryDelete(r) ==
    /\ cache[r].present /\ ~cache[r].subscribed
    /\ Commit(TryDeleteTurn(r))
    /\ UNCHANGED << dA, dB, dOps, dRes, dpc >>

NextRef == \E r \in RIDS : TryDelete(r)

SpecRef == InitRef /\ [][NextRef]_vars

\* The cached resources that are not subscribed: the roots _getRefState works on
UnsubscribedRoots == {r \in RIDS : cache[r].present /\ ~cache[r].subscribed}
\* In the map every entry was given a state, and delete only without a listener
AllMarked(c, refs) ==
    \A x \in MapOf(refs) :
        /\ refs.st[x] \in {stateDelete, stateKeep, stateStale}
        /\ refs.st[x] = stateDelete => c[x].direct = 0
\* C28: for every cache graph (cycles, self-references and multiple references
\* included) and every root that is not subscribed, the two traversals of _getRefState
\* come to an end, and in the map returned the root and every other entry has state
\* delete, keep or stale, never none, with delete only on entries without a listener.
C28_RefStateMarksAll ==
    \A r \in UnsubscribedRoots :
        LET refs == getRefState(cache, r, cache[r])
        IN  r \in MapOf(refs) /\ AllMarked(cache, refs)
\* The model refers to the collection twice, the collection to the model and to itself,
\* and the collection has a listener: from the root a, the collection is stale and the
\* model, first marked delete, is kept by it; _tryDelete has run and made the collection
\* stale
C28_Witness ==
    /\ cache["a"].m = [k1 |-> Ref("b"), k2 |-> Ref("b")]
    /\ cache["b"].c = << Ref("a"), Ref("b") >>
    /\ cache["a"].direct = 0 /\ cache["b"].direct = 1
    /\ UnsubscribedRoots = RIDS
    /\ cache["a"].indirect = 1 /\ cache["b"].indirect = 3
    /\ getRefState(cache, "a", cache["a"]).st = [a |-> stateKeep, b |-> stateStale]
    /\ stale = {"b"}

=============================================================================
